---- MODULE Spec2Model ----
(***************************************************************************)
(* Model of the three sensor adapters of rocket-sensors:                   *)
(*   LoadCell  (src/src/models/loadcell.py, HX711 ADC),                    *)
(*   Mpu       (src/src/models/mpu.py, MPU6050 IMU),                       *)
(*   BmpSensor (src/src/models/bmp.py, BMP085 barometer).                  *)
(*                                                                         *)
(* Each method of an adapter is an operator from the adapter's attributes  *)
(* and the behaviour of the transport during the call to the attributes    *)
(* afterwards, the outcome (returned / raised), the value returned or the  *)
(* exception raised, and the transport calls made.  Each action of Next    *)
(* is one whole call of one method.                                        *)
(*                                                                         *)
(* A Python mapping is a function whose DOMAIN is the set of its keys; a   *)
(* result value that is a bool or a float is wrapped ([bool |-> b],        *)
(* [float |-> r]) so that values of different Python types can be          *)
(* compared.  Sensor samples and the Mpu / BmpSensor offsets, which only   *)
(* ever hold a sample or 0.0, are integers standing for exact floats.      *)
(*                                                                         *)
(* The adapter instances share no state, so every behaviour follows one    *)
(* instance (variable adapter); the attributes of the other two classes    *)
(* stay at their initial values.                                           *)
(***************************************************************************)
EXTENDS Integers, Sequences, FiniteSets, TLC

VARIABLES adapter, lc, mpu, bmp, opens, last, loop

vars == <<adapter, lc, mpu, bmp, opens, last, loop>>

(***************************************************************************)
(* Bounds of the model.                                                    *)
(***************************************************************************)
\* transport opens (HX711 / MPU6050 / BMP085 constructions) in one behaviour
MaxOpens == 3
\* number of verbs in one do_command mapping
MaxCmdLen == 2
\* coroutines scheduled on the event loop in one behaviour
MaxTasks == 3

(***************************************************************************)
(* Python floats.  A float is <<n, d, exact>>: n/d in lowest terms (d > 0) *)
(* is the value the computation has in real arithmetic, and exact tells    *)
(* whether the double is that value: a result is exact when its operands   *)
(* are and n/d is a binary fraction (every value of the model fits the 53  *)
(* bit mantissa); otherwise the double is n/d up to rounding.  0.0 times   *)
(* or divided by anything is 0.0 exactly.                                  *)
(***************************************************************************)
Abs(x) == IF x < 0 THEN -x ELSE x

RECURSIVE GCD(_, _)
GCD(a, b) == IF b = 0 THEN a ELSE GCD(b, a % b)

RECURSIVE IsPow2(_)
IsPow2(d) == d = 1 \/ (d % 2 = 0 /\ IsPow2(d \div 2))

\* the double for the real n/d (d # 0) computed from operands that are exact or not
Rat(n, d, exact) ==
    LET g == GCD(Abs(n), Abs(d))
        s == IF d < 0 THEN -1 ELSE 1
    IN  <<(s * n) \div g, (s * d) \div g, exact /\ IsPow2((s * d) \div g)>>

FromInt(i) == <<i, 1, TRUE>>
Zero == FromInt(0)
RatAdd(a, b) == Rat(a[1] * b[2] + b[1] * a[2], a[2] * b[2], a[3] /\ b[3])
RatSub(a, b) == Rat(a[1] * b[2] - b[1] * a[2], a[2] * b[2], a[3] /\ b[3])
RatMul(a, b) ==
    IF a = Zero \/ b = Zero THEN Zero ELSE Rat(a[1] * b[1], a[2] * b[2], a[3] /\ b[3])
\* a / i for an integer i # 0
RatDivInt(a, i) == IF a = Zero THEN Zero ELSE Rat(a[1], a[2] * i, a[3])

RECURSIVE SumFrom(_, _)
SumFrom(acc, s) == IF s = <<>> THEN acc ELSE SumFrom(RatAdd(acc, s[1]), Tail(s))
\* Python sum() of a list of floats
RatSum(s) == SumFrom(Zero, s)

\* Python dict.get(key, default) on a mapping
Get(attrs, key, default) == IF key \in DOMAIN attrs THEN attrs[key] ELSE default

\* the empty Python mapping {}
EmptyMapping == [k \in {} |-> 0]

\* a Python bool / float as a result value
Bool(b) == [bool |-> b]
Float(r) == [float |-> r]


(***************************************************************************)
(* Configuration attributes as validate_config sees them: protobuf Values, *)
(* each of one kind (number_value holds a float, string_value a string).   *)
(***************************************************************************)
Number(r) == [kind |-> "number_value", number_value |-> r]
String(s) == [kind |-> "string_value", string_value |-> s]
\* Value.HasField(name)
HasField(value, name) == value.kind = name

\* Python int() of a float: truncation towards zero
int(r) == IF r[1] >= 0 THEN r[1] \div r[2] ELSE -((-r[1]) \div r[2])

RECURSIVE Join(_, _)
\* sep.join(strings)
Join(sep, strings) ==
    IF strings = <<>> THEN ""
    ELSE IF Len(strings) = 1 THEN strings[1]
    ELSE strings[1] \o sep \o Join(sep, Tail(strings))

(***************************************************************************)
(* The transport: what the hardware library does during one call.          *)
(***************************************************************************)
\* exceptions a transport call can raise
Exceptions == {"OSError", "TimeoutError"}
NoException == "none"

\* what a method hands back to its caller
Returned(self, result, log) ==
    [self |-> self, outcome |-> "returned", result |-> result,
     raised |-> NoException, log |-> log]
Raised(self, exc, log) ==
    [self |-> self, outcome |-> "raised", result |-> EmptyMapping,
     raised |-> exc, log |-> log]

\* the transport calls that open a device
OpenCalls == {"HX711", "MPU6050", "BMP085"}
\* number of transport opens among the transport calls of log
Opens(log) == Cardinality({i \in DOMAIN log : log[i] \in OpenCalls})

\* Python None
None == [none |-> TRUE]

(***************************************************************************)
(* LoadCell (src/src/models/loadcell.py).                                  *)
(* self: [hx711, gain, doutPin, sckPin, numberOfReadings, tare_offset].    *)
(* env:  [fault, exc, measures]: the transport call that raises during     *)
(*       this call ("none" if none), the exception it raises, and the raw  *)
(*       samples get_raw_data returns.                                     *)
(* opened: transport opens made before the call; the handle built by the   *)
(*       next HX711(...) gets the identity opened + 1.                     *)
(***************************************************************************)
\* raw ADC counts to kg
RawPerKg == 8200
DefaultGain == 64
DefaultDoutPin == 5
DefaultSckPin == 6
DefaultNumberOfReadings == 3

\* lists of raw ADC counts the HX711 can return for get_raw_data(times=3)
RawSamples == {<<8200, 8205, 8195>>, <<8195, 8195, 8205>>}

\* the attribute mappings reconfigure is called with (all pass validate_config)
LoadCellConfigs ==
    { EmptyMapping,
      [gain |-> 128, doutPin |-> 7, sckPin |-> 8, numberOfReadings |-> 1,
       tare_offset |-> -8200],
      [tare_offset |-> -8200] }



\* validate_config that raises on the first violation it finds
LoadCell_validate_config_FirstOnly(fields) ==
    LET Bad(name, Ok(_)) ==
            /\ name \in DOMAIN fields
            /\ \/ ~HasField(fields[name], "number_value")
               \/ ~Ok(fields[name].number_value)
        InGain(r) == r \in {FromInt(32), FromInt(64), FromInt(128)}
        InPins(r) == 1 <= int(r) /\ int(r) <= 40
        InReadings(r) == 1 <= int(r) /\ int(r) < 100
        InOffset(r) == r[1] <= 0
    IN  IF \/ Bad("gain", InGain) \/ Bad("doutPin", InPins) \/ Bad("sckPin", InPins)
           \/ Bad("numberOfReadings", InReadings) \/ Bad("tare_offset", InOffset)
        THEN [Raised(None, "Exception", <<>>) EXCEPT
                 !.result = [message |-> "Invalid configuration.",
                             errors |-> <<"Invalid configuration.">>]]
        ELSE Returned(None, <<>>, <<>>)

\* validate_config: the errors list, field by field, then raise or return []
LoadCell_validate_config(fields) ==
    LET gain ==
            IF "gain" \notin DOMAIN fields THEN <<>>
            ELSE IF ~HasField(fields["gain"], "number_value")
            THEN <<"Gain must be a valid number.">>
            ELSE IF fields["gain"].number_value
                       \notin {FromInt(32), FromInt(64), FromInt(128)}
            THEN <<"Gain must be 32, 64, or 128.">>
            ELSE <<>>
        doutPin ==
            IF "doutPin" \notin DOMAIN fields THEN <<>>
            ELSE IF ~HasField(fields["doutPin"], "number_value")
            THEN <<"Data Out pin must be a valid number.">>
            ELSE LET dout_pin == int(fields["doutPin"].number_value)
                 IN  IF ~(1 <= dout_pin /\ dout_pin <= 40)
                     THEN <<"Data Out pin must be a valid GPIO pin number (1-40).">>
                     ELSE <<>>
        sckPin ==
            IF "sckPin" \notin DOMAIN fields THEN <<>>
            ELSE IF ~HasField(fields["sckPin"], "number_value")
            THEN <<"Clock pin must be a valid number.">>
            ELSE LET sck_pin == int(fields["sckPin"].number_value)
                 IN  IF ~(1 <= sck_pin /\ sck_pin <= 40)
                     THEN <<"Clock pin must be a valid GPIO pin number (1-40).">>
                     ELSE <<>>
        numberOfReadings ==
            IF "numberOfReadings" \notin DOMAIN fields THEN <<>>
            ELSE IF ~HasField(fields["numberOfReadings"], "number_value")
            THEN <<"Number of readings must be a valid number.">>
            ELSE LET num_readings == int(fields["numberOfReadings"].number_value)
                 IN  IF ~(1 <= num_readings /\ num_readings < 100)
                     THEN <<"Number of readings must be a positive integer less than 100.">>
                     ELSE <<>>
        tare_offset ==
            IF "tare_offset" \notin DOMAIN fields THEN <<>>
            ELSE IF ~HasField(fields["tare_offset"], "number_value")
            THEN <<"Tare offset must be a valid number.">>
            ELSE IF fields["tare_offset"].number_value[1] > 0
            THEN <<"Tare offset must be a non-positive floating point value (<= 0.0).">>
            ELSE <<>>
        errors == gain \o doutPin \o sckPin \o numberOfReadings \o tare_offset
    IN  IF errors # <<>>
        THEN [Raised(None, "Exception", <<>>) EXCEPT
                 !.result = [message |-> Join("; ", errors), errors |-> errors]]
        ELSE Returned(None, <<>>, <<>>)

\* the transport calls get_hx711 makes, and those get_readings / tare make
LoadCellOpenFaults(self) == IF self.hx711 = None THEN {"HX711", "reset"} ELSE {}
LoadCellFaults(self) == LoadCellOpenFaults(self) \cup {"get_raw_data"}

\* get_hx711 without the "if self.hx711 is None" test: it opens on every call
LoadCell_get_hx711_AlwaysOpens(self, env, opened) ==
    IF env.fault = "HX711"
    THEN Raised([self EXCEPT !.hx711 = None], env.exc, <<"HX711">>)
    ELSE IF env.fault = "reset"
    THEN Raised([self EXCEPT !.hx711 = None], env.exc, <<"HX711", "reset">>)
    ELSE LET h == [id |-> opened + 1, dout_pin |-> self.doutPin,
                   pd_sck_pin |-> self.sckPin, channel |-> "A",
                   gain |-> self.gain, reset |-> TRUE]
         IN  Returned([self EXCEPT !.hx711 = h], h, <<"HX711", "reset">>)


\* get_hx711 whose except clause re-raises without "self.hx711 = None": the
\* object whose reset() raised stays assigned
LoadCell_get_hx711_KeepsUnreset(self, env, opened) ==
    IF self.hx711 # None
    THEN Returned(self, self.hx711, <<>>)
    ELSE IF env.fault = "HX711"
    THEN Raised([self EXCEPT !.hx711 = None], env.exc, <<"HX711">>)
    ELSE LET h == [id |-> opened + 1, dout_pin |-> self.doutPin,
                   pd_sck_pin |-> self.sckPin, channel |-> "A",
                   gain |-> self.gain, reset |-> env.fault # "reset"]
         IN  IF env.fault = "reset"
             THEN Raised([self EXCEPT !.hx711 = h], env.exc, <<"HX711", "reset">>)
             ELSE Returned([self EXCEPT !.hx711 = h], h, <<"HX711", "reset">>)

LoadCell_get_hx711(self, env, opened) ==
    IF self.hx711 # None
    THEN Returned(self, self.hx711, <<>>)
    ELSE IF env.fault = "HX711"
    THEN \* the constructor raised: nothing was assigned
         Raised([self EXCEPT !.hx711 = None], env.exc, <<"HX711">>)
    ELSE IF env.fault = "reset"
    THEN \* reset() raised: the object just assigned is deleted again
         Raised([self EXCEPT !.hx711 = None], env.exc, <<"HX711", "reset">>)
    ELSE LET h == [id |-> opened + 1, dout_pin |-> self.doutPin,
                   pd_sck_pin |-> self.sckPin, channel |-> "A",
                   gain |-> self.gain, reset |-> TRUE]
         IN  Returned([self EXCEPT !.hx711 = h], h, <<"HX711", "reset">>)

LoadCell_reconfigure(self, config, env, opened) ==
    LET s1 == [self EXCEPT
                 !.gain = Get(config, "gain", DefaultGain),
                 !.doutPin = Get(config, "doutPin", DefaultDoutPin),
                 !.sckPin = Get(config, "sckPin", DefaultSckPin),
                 !.numberOfReadings =
                     Get(config, "numberOfReadings", DefaultNumberOfReadings),
                 !.tare_offset = FromInt(Get(config, "tare_offset", 0))]
    IN  IF s1.hx711 = None
        THEN LET g == LoadCell_get_hx711(s1, env, opened)
             IN  IF g.outcome = "raised"
                 THEN Raised(g.self, g.raised, g.log)
                 ELSE Returned(g.self, None, g.log)
        ELSE Returned(s1, None, <<>>)

LoadCell_close(self) ==
    Returned([self EXCEPT !.hx711 = None], None, <<"GPIO.cleanup">>)

\* get_readings whose except clause re-raises without discarding the handle
LoadCell_get_readings_KeepsHandle(self, env, opened) ==
    LET g == LoadCell_get_hx711(self, env, opened)
    IN  IF g.outcome = "raised"
        THEN Raised(g.self, g.raised, g.log)
        ELSE IF env.fault = "get_raw_data"
        THEN Raised(g.self, env.exc, g.log \o <<"get_raw_data">>)
        ELSE Returned(g.self, [weight |-> Zero], g.log \o <<"get_raw_data">>)


\* get_readings that adds the tare offset to each sample instead of subtracting it
LoadCell_get_readings_AddsOffset(self, env, opened) ==
    LET g == LoadCell_get_hx711(self, env, opened)
    IN  IF g.outcome = "raised"
        THEN Raised([g.self EXCEPT !.hx711 = None], g.raised, g.log)
        ELSE IF env.fault = "get_raw_data"
        THEN Raised([g.self EXCEPT !.hx711 = None], env.exc,
                    g.log \o <<"get_raw_data">>)
        ELSE LET measures == env.measures
                 measures_kg ==
                     [i \in DOMAIN measures |->
                        RatDivInt(RatAdd(FromInt(measures[i]), self.tare_offset),
                                  RawPerKg)]
                 avg_kgs == RatDivInt(RatSum(measures_kg), Len(measures_kg))
             IN  Returned(g.self,
                          [doutPin |-> FromInt(self.doutPin),
                           sckPin |-> FromInt(self.sckPin),
                           gain |-> FromInt(self.gain),
                           numberOfReadings |-> FromInt(self.numberOfReadings),
                           tare_offset |-> RatDivInt(self.tare_offset, RawPerKg),
                           measures |-> measures_kg,
                           weight |-> avg_kgs],
                          g.log \o <<"get_raw_data">>)


\* get_readings whose except clause also puts the tare offset back to 0.0
LoadCell_get_readings_ClearsOffset(self, env, opened) ==
    LET g == LoadCell_get_hx711(self, env, opened)
    IN  IF g.outcome = "raised"
        THEN Raised([g.self EXCEPT !.hx711 = None, !.tare_offset = Zero],
                    g.raised, g.log)
        ELSE IF env.fault = "get_raw_data"
        THEN Raised([g.self EXCEPT !.hx711 = None, !.tare_offset = Zero], env.exc,
                    g.log \o <<"get_raw_data">>)
        ELSE Returned(g.self, [weight |-> Zero], g.log \o <<"get_raw_data">>)

LoadCell_get_readings(self, env, opened) ==
    LET g == LoadCell_get_hx711(self, env, opened)
    IN  IF g.outcome = "raised"
        THEN Raised([g.self EXCEPT !.hx711 = None], g.raised, g.log)
        ELSE IF env.fault = "get_raw_data"
        THEN Raised([g.self EXCEPT !.hx711 = None], env.exc,
                    g.log \o <<"get_raw_data">>)
        ELSE LET measures == env.measures
                 measures_kg ==
                     [i \in DOMAIN measures |->
                        RatDivInt(RatSub(FromInt(measures[i]), self.tare_offset),
                                  RawPerKg)]
                 avg_kgs == RatDivInt(RatSum(measures_kg), Len(measures_kg))
             IN  Returned(g.self,
                          [doutPin |-> FromInt(self.doutPin),
                           sckPin |-> FromInt(self.sckPin),
                           gain |-> FromInt(self.gain),
                           numberOfReadings |-> FromInt(self.numberOfReadings),
                           tare_offset |-> RatDivInt(self.tare_offset, RawPerKg),
                           measures |-> measures_kg,
                           weight |-> avg_kgs],
                          g.log \o <<"get_raw_data">>)

\* tare whose except clause wraps the error and keeps the handle
LoadCell_tare_KeepsHandle(self, env, opened) ==
    LET g == LoadCell_get_hx711(self, env, opened)
    IN  IF g.outcome = "raised"
        THEN Raised(g.self, "RuntimeError", g.log)
        ELSE IF env.fault = "get_raw_data"
        THEN Raised(g.self, "RuntimeError", g.log \o <<"get_raw_data">>)
        ELSE LET measures == [i \in DOMAIN env.measures |-> FromInt(env.measures[i])]
             IN  Returned([g.self EXCEPT
                             !.tare_offset =
                                 RatDivInt(RatSum(measures), Len(measures))],
                          None, g.log \o <<"get_raw_data">>)


\* tare that, when get_raw_data raises, opens a new handle and samples again
LoadCell_tare_Retries(self, env, opened) ==
    LET g == LoadCell_get_hx711(self, env, opened)
    IN  IF g.outcome = "raised"
        THEN Raised([g.self EXCEPT !.hx711 = None], g.raised, g.log)
        ELSE IF env.fault = "get_raw_data"
        THEN Raised([g.self EXCEPT !.hx711 = None], env.exc,
                    g.log \o <<"get_raw_data", "HX711", "reset", "get_raw_data">>)
        ELSE LET measures == [i \in DOMAIN env.measures |-> FromInt(env.measures[i])]
             IN  Returned([g.self EXCEPT
                             !.tare_offset =
                                 RatDivInt(RatSum(measures), Len(measures))],
                          None, g.log \o <<"get_raw_data">>)


\* tare that also puts the sample count back to its default
LoadCell_tare_ResetsReadings(self, env, opened) ==
    LET g == LoadCell_get_hx711(self, env, opened)
    IN  IF g.outcome = "raised"
        THEN Raised([g.self EXCEPT !.hx711 = None], g.raised, g.log)
        ELSE IF env.fault = "get_raw_data"
        THEN Raised([g.self EXCEPT !.hx711 = None], env.exc,
                    g.log \o <<"get_raw_data">>)
        ELSE LET measures == [i \in DOMAIN env.measures |-> FromInt(env.measures[i])]
             IN  Returned([g.self EXCEPT
                             !.tare_offset =
                                 RatDivInt(RatSum(measures), Len(measures)),
                             !.numberOfReadings = DefaultNumberOfReadings],
                          None, g.log \o <<"get_raw_data">>)

LoadCell_tare(self, env, opened) ==
    LET g == LoadCell_get_hx711(self, env, opened)
    IN  IF g.outcome = "raised"
        THEN Raised([g.self EXCEPT !.hx711 = None], g.raised, g.log)
        ELSE IF env.fault = "get_raw_data"
        THEN Raised([g.self EXCEPT !.hx711 = None], env.exc,
                    g.log \o <<"get_raw_data">>)
        ELSE LET measures == [i \in DOMAIN env.measures |-> FromInt(env.measures[i])]
             IN  Returned([g.self EXCEPT
                             !.tare_offset =
                                 RatDivInt(RatSum(measures), Len(measures))],
                          None, g.log \o <<"get_raw_data">>)

RECURSIVE LoadCell_do_command_loop(_, _, _, _, _, _)
\* the for loop of do_command over the names still to process
LoadCell_do_command_loop(self, names, result, env, opened, log) ==
    IF names = <<>>
    THEN Returned(self, result, log)
    ELSE LET name == Head(names)
         IN  IF name = "tare"
             THEN LET t == LoadCell_tare(self, env, opened + Opens(log))
                  IN  IF t.outcome = "raised"
                      THEN Raised(t.self, t.raised, log \o t.log)
                      ELSE LoadCell_do_command_loop(
                               t.self, Tail(names),
                               [result EXCEPT ![name] =
                                   Float(RatDivInt(t.self.tare_offset, RawPerKg))],
                               env, opened, log \o t.log)
             ELSE LoadCell_do_command_loop(self, Tail(names), result, env,
                                           opened, log)

\* command: the names of the command mapping in iteration order
LoadCell_do_command(self, command, env, opened) ==
    LoadCell_do_command_loop(
        self, command,
        [key \in {command[i] : i \in DOMAIN command} |-> Bool(FALSE)],
        env, opened, <<>>)

(***************************************************************************)
(* Unit conversion shared by Mpu and BmpSensor (metric -> imperial).       *)
(***************************************************************************)
\* 3.28084 (m -> ft, m/s2 -> ft/s2)
FeetPerMeter == Rat(328084, 100000, TRUE)
\* 57.2958 (rad/s -> deg/s)
DegPerRad == Rat(572958, 10000, TRUE)
\* 0.0002953 (Pa -> inHg)
InHgPerPa == Rat(2953, 10000000, TRUE)
\* (c * 9/5) + 32
Fahrenheit(c) == RatAdd(RatDivInt(RatMul(c, FromInt(9)), 5), FromInt(32))

\* the key f"{name} - {unit}" of a reading
Key(name, unit) == name \o " - " \o unit

\* str.lower() on the unit strings of the model
Lower(s) ==
    CASE s = "Metric" -> "metric"
      [] s = "IMPERIAL" -> "imperial"
      [] OTHER -> s

(***************************************************************************)
(* Mpu (src/src/models/mpu.py).                                            *)
(* self: [sensor, i2c_address, units, sample_rate, accel_x_offset, ...,    *)
(*        gyro_z_offset].                                                  *)
(* env:  [fault, exc, acceleration, gyro, temperature]: the transport call *)
(*       that raises ("none" if none), its exception, and the values the   *)
(*       sensor properties return.                                         *)
(***************************************************************************)
DefaultI2cAddress == 104
DefaultSampleRate == 100

\* (x, y, z) samples of sensor.acceleration and sensor.gyro, sensor.temperature
AccelSamples == {<<1, 2, 10>>, <<0, -1, 9>>}
GyroSamples == {<<1, 0, 3>>, <<-2, 5, 0>>}
TemperatureSamples == {25}

MpuConfigs ==
    { EmptyMapping,
      [units |-> "IMPERIAL", i2c_address |-> 105, sample_rate |-> 50,
       accel_x_offset |-> 1, accel_y_offset |-> 2, accel_z_offset |-> 3,
       gyro_x_offset |-> 1, gyro_y_offset |-> 2, gyro_z_offset |-> 3] }

MpuReconfigureFaults == {"I2C", "MPU6050", "accelerometer_range", "gyro_range"}
\* the transport calls get_readings and tare make
MpuReadFaults(self) ==
    IF self.sensor = None THEN {} ELSE {"acceleration", "gyro", "temperature"}
MpuTareFaults(self) == IF self.sensor = None THEN {} ELSE {"acceleration", "gyro"}




\* the units check without the .lower()
ValidateUnits_CaseSensitive(fields) ==
    IF "units" \notin DOMAIN fields THEN <<>>
    ELSE IF ~HasField(fields["units"], "string_value")
    THEN <<"units must be a valid string">>
    ELSE IF fields["units"].string_value \notin {"metric", "imperial"}
    THEN <<"units must be either 'metric' or 'imperial'">>
    ELSE <<>>

\* the units check shared by Mpu.validate_config and BmpSensor.validate_config
ValidateUnits(fields) ==
    IF "units" \notin DOMAIN fields THEN <<>>
    ELSE IF ~HasField(fields["units"], "string_value")
    THEN <<"units must be a valid string">>
    ELSE IF Lower(fields["units"].string_value) \notin {"metric", "imperial"}
    THEN <<"units must be either 'metric' or 'imperial'">>
    ELSE <<>>

\* validate_config: the first check that fails raises ValueError
Mpu_validate_config(fields) ==
    LET i2c_address ==
            IF "i2c_address" \notin DOMAIN fields THEN <<>>
            ELSE IF ~HasField(fields["i2c_address"], "number_value")
            THEN <<"i2c_address must be a valid number">>
            ELSE LET a == int(fields["i2c_address"].number_value)
                 IN  IF ~(8 <= a /\ a <= 119)
                     THEN <<"i2c_address must be a valid I2C address (0x08-0x77)">>
                     ELSE <<>>
        sample_rate ==
            IF "sample_rate" \notin DOMAIN fields THEN <<>>
            ELSE IF ~HasField(fields["sample_rate"], "number_value")
            THEN <<"sample_rate must be a valid number">>
            ELSE IF int(fields["sample_rate"].number_value) <= 0
            THEN <<"sample_rate must be a positive number">>
            ELSE <<>>
        errors == i2c_address \o ValidateUnits(fields) \o sample_rate
    IN  IF errors # <<>>
        THEN [Raised(None, "ValueError", <<>>) EXCEPT
                 !.result = [message |-> Head(errors)]]
        ELSE Returned(None, <<>>, <<>>)

\* reconfigure without the assignments that zero the six offsets
Mpu_reconfigure_KeepsOffsets(self, config, env, opened) ==
    IF env.fault = "I2C"
    THEN Raised([self EXCEPT !.sensor = None], env.exc, <<"I2C">>)
    ELSE LET s1 == [self EXCEPT
                      !.i2c_address = Get(config, "i2c_address", DefaultI2cAddress),
                      !.units = Lower(Get(config, "units", "metric")),
                      !.sample_rate = Get(config, "sample_rate", DefaultSampleRate)]
             h == [id |-> opened + 1, address |-> s1.i2c_address]
         IN  IF env.fault \in {"MPU6050", "accelerometer_range", "gyro_range"}
             THEN Raised([s1 EXCEPT !.sensor = None], env.exc, <<"I2C", "MPU6050">>)
             ELSE Returned([s1 EXCEPT !.sensor = h], None,
                           <<"I2C", "MPU6050", "accelerometer_range", "gyro_range">>)


\* reconfigure that stores units as given, without the .lower()
Mpu_reconfigure_KeepsCase(self, config, env, opened) ==
    IF env.fault = "I2C"
    THEN Raised([self EXCEPT !.sensor = None], env.exc, <<"I2C">>)
    ELSE LET s1 == [self EXCEPT
                      !.i2c_address = Get(config, "i2c_address", DefaultI2cAddress),
                      !.units = Get(config, "units", "metric"),
                      !.sample_rate = Get(config, "sample_rate", DefaultSampleRate)]
             h == [id |-> opened + 1, address |-> s1.i2c_address]
         IN  IF env.fault \in {"MPU6050", "accelerometer_range", "gyro_range"}
             THEN Raised([s1 EXCEPT !.sensor = None], env.exc, <<"I2C", "MPU6050">>)
             ELSE Returned([s1 EXCEPT !.sensor = h,
                                      !.accel_x_offset = 0, !.accel_y_offset = 0,
                                      !.accel_z_offset = 0, !.gyro_x_offset = 0,
                                      !.gyro_y_offset = 0, !.gyro_z_offset = 0],
                           None,
                           <<"I2C", "MPU6050", "accelerometer_range", "gyro_range">>)

Mpu_reconfigure(self, config, env, opened) ==
    IF env.fault = "I2C"
    THEN Raised([self EXCEPT !.sensor = None], env.exc, <<"I2C">>)
    ELSE LET s1 == [self EXCEPT
                      !.i2c_address = Get(config, "i2c_address", DefaultI2cAddress),
                      !.units = Lower(Get(config, "units", "metric")),
                      !.sample_rate = Get(config, "sample_rate", DefaultSampleRate)]
             h == [id |-> opened + 1, address |-> s1.i2c_address]
         IN  IF env.fault = "MPU6050"
             THEN Raised([s1 EXCEPT !.sensor = None], env.exc, <<"I2C", "MPU6050">>)
             ELSE IF env.fault = "accelerometer_range"
             THEN Raised([s1 EXCEPT !.sensor = None], env.exc,
                         <<"I2C", "MPU6050", "accelerometer_range">>)
             ELSE IF env.fault = "gyro_range"
             THEN Raised([s1 EXCEPT !.sensor = None], env.exc,
                         <<"I2C", "MPU6050", "accelerometer_range", "gyro_range">>)
             ELSE Returned([s1 EXCEPT !.sensor = h,
                                      !.accel_x_offset = 0, !.accel_y_offset = 0,
                                      !.accel_z_offset = 0, !.gyro_x_offset = 0,
                                      !.gyro_y_offset = 0, !.gyro_z_offset = 0],
                           None,
                           <<"I2C", "MPU6050", "accelerometer_range", "gyro_range">>)



\* get_readings that converts the raw value first and subtracts the offset,
\* still in metric units, from the converted value
Mpu_get_readings_ConvertsFirst(self, env) ==
    IF self.sensor # None
    THEN IF env.fault \in {"acceleration", "gyro", "temperature"}
         THEN Returned(self, EmptyMapping, <<"acceleration">>)
         ELSE LET acceleration == env.acceleration
                  gyro == env.gyro
                  temperature == FromInt(env.temperature)
                  imperial == self.units = "imperial"
                  accel_unit == IF imperial THEN "ft/s2" ELSE "m/s2"
                  gyro_unit == IF imperial THEN "deg/s" ELSE "rad/s"
                  temp_unit == IF imperial THEN "F" ELSE "C"
                  Accel(v, offset) ==
                      RatSub(IF imperial THEN RatMul(FromInt(v), FeetPerMeter)
                                         ELSE FromInt(v),
                             FromInt(offset))
                  Gyro(v, offset) ==
                      RatSub(IF imperial THEN RatMul(FromInt(v), DegPerRad)
                                         ELSE FromInt(v),
                             FromInt(offset))
                  temp_display ==
                      IF imperial THEN Fahrenheit(temperature) ELSE temperature
              IN  Returned(self,
                      (Key("acceleration_x", accel_unit) :>
                          Accel(acceleration[1], self.accel_x_offset))
                   @@ (Key("acceleration_y", accel_unit) :>
                          Accel(acceleration[2], self.accel_y_offset))
                   @@ (Key("acceleration_z", accel_unit) :>
                          Accel(acceleration[3], self.accel_z_offset))
                   @@ (Key("gyro_x", gyro_unit) :> Gyro(gyro[1], self.gyro_x_offset))
                   @@ (Key("gyro_y", gyro_unit) :> Gyro(gyro[2], self.gyro_y_offset))
                   @@ (Key("gyro_z", gyro_unit) :> Gyro(gyro[3], self.gyro_z_offset))
                   @@ (Key("temperature", temp_unit) :> temp_display),
                      <<"acceleration", "gyro", "temperature">>)
    ELSE Returned(self, EmptyMapping, <<>>)

\* get_readings whose except clause re-raises instead of returning {}
Mpu_get_readings_Raises(self, env) ==
    IF self.sensor = None
    THEN Returned(self, EmptyMapping, <<>>)
    ELSE IF env.fault = "acceleration"
    THEN Raised(self, env.exc, <<"acceleration">>)
    ELSE IF env.fault = "gyro"
    THEN Raised(self, env.exc, <<"acceleration", "gyro">>)
    ELSE IF env.fault = "temperature"
    THEN Raised(self, env.exc, <<"acceleration", "gyro", "temperature">>)
    ELSE Returned(self, [k \in {"acceleration_x - m/s2"} |-> Zero],
                  <<"acceleration", "gyro", "temperature">>)

Mpu_get_readings(self, env) ==
    IF self.sensor # None
    THEN IF env.fault = "acceleration"
         THEN Returned(self, EmptyMapping, <<"acceleration">>)
         ELSE IF env.fault = "gyro"
         THEN Returned(self, EmptyMapping, <<"acceleration", "gyro">>)
         ELSE IF env.fault = "temperature"
         THEN Returned(self, EmptyMapping, <<"acceleration", "gyro", "temperature">>)
         ELSE LET acceleration == env.acceleration
                  gyro == env.gyro
                  temperature == FromInt(env.temperature)
                  accel_x == FromInt(acceleration[1] - self.accel_x_offset)
                  accel_y == FromInt(acceleration[2] - self.accel_y_offset)
                  accel_z == FromInt(acceleration[3] - self.accel_z_offset)
                  gyro_x == FromInt(gyro[1] - self.gyro_x_offset)
                  gyro_y == FromInt(gyro[2] - self.gyro_y_offset)
                  gyro_z == FromInt(gyro[3] - self.gyro_z_offset)
                  log == <<"acceleration", "gyro", "temperature">>
                  imperial == self.units = "imperial"
                  accel_unit == IF imperial THEN "ft/s2" ELSE "m/s2"
                  gyro_unit == IF imperial THEN "deg/s" ELSE "rad/s"
                  temp_unit == IF imperial THEN "F" ELSE "C"
                  AccelDisplay(v) == IF imperial THEN RatMul(v, FeetPerMeter) ELSE v
                  GyroDisplay(v) == IF imperial THEN RatMul(v, DegPerRad) ELSE v
                  temp_display ==
                      IF imperial THEN Fahrenheit(temperature) ELSE temperature
              IN  Returned(self,
                      (Key("acceleration_x", accel_unit) :> AccelDisplay(accel_x))
                   @@ (Key("acceleration_y", accel_unit) :> AccelDisplay(accel_y))
                   @@ (Key("acceleration_z", accel_unit) :> AccelDisplay(accel_z))
                   @@ (Key("gyro_x", gyro_unit) :> GyroDisplay(gyro_x))
                   @@ (Key("gyro_y", gyro_unit) :> GyroDisplay(gyro_y))
                   @@ (Key("gyro_z", gyro_unit) :> GyroDisplay(gyro_z))
                   @@ (Key("temperature", temp_unit) :> temp_display),
                      log)
    ELSE Returned(self, EmptyMapping, <<>>)

\* tare that adds the sample to the offsets held instead of replacing them
Mpu_tare_Accumulates(self, env) ==
    IF self.sensor = None
    THEN Raised(self, "RuntimeError", <<>>)
    ELSE IF env.fault = "acceleration"
    THEN Raised(self, env.exc, <<"acceleration">>)
    ELSE IF env.fault = "gyro"
    THEN Raised(self, env.exc, <<"acceleration", "gyro">>)
    ELSE Returned([self EXCEPT !.accel_x_offset = @ + env.acceleration[1],
                               !.accel_y_offset = @ + env.acceleration[2],
                               !.accel_z_offset = @ + env.acceleration[3],
                               !.gyro_x_offset = @ + env.gyro[1],
                               !.gyro_y_offset = @ + env.gyro[2],
                               !.gyro_z_offset = @ + env.gyro[3]],
                  None, <<"acceleration", "gyro">>)

Mpu_tare(self, env) ==
    IF self.sensor = None
    THEN Raised(self, "RuntimeError", <<>>)
    ELSE IF env.fault = "acceleration"
    THEN Raised(self, env.exc, <<"acceleration">>)
    ELSE IF env.fault = "gyro"
    THEN Raised(self, env.exc, <<"acceleration", "gyro">>)
    ELSE Returned([self EXCEPT !.accel_x_offset = env.acceleration[1],
                               !.accel_y_offset = env.acceleration[2],
                               !.accel_z_offset = env.acceleration[3],
                               !.gyro_x_offset = env.gyro[1],
                               !.gyro_y_offset = env.gyro[2],
                               !.gyro_z_offset = env.gyro[3]],
                  None, <<"acceleration", "gyro">>)

\* reset_tare that zeroes the acceleration offsets only
Mpu_reset_tare_AccelOnly(self) ==
    Returned([self EXCEPT !.accel_x_offset = 0, !.accel_y_offset = 0,
                          !.accel_z_offset = 0],
             None, <<>>)

Mpu_reset_tare(self) ==
    Returned([self EXCEPT !.accel_x_offset = 0, !.accel_y_offset = 0,
                          !.accel_z_offset = 0, !.gyro_x_offset = 0,
                          !.gyro_y_offset = 0, !.gyro_z_offset = 0],
             None, <<>>)

\* the error descriptor of do_command for a name it does not know
UnknownCommand(name) ==
    [error |-> "Unknown command: " \o name,
     available_commands |-> <<"tare", "reset_tare">>]

RECURSIVE Mpu_do_command_loop(_, _, _, _, _)
Mpu_do_command_loop(self, names, result, env, log) ==
    IF names = <<>>
    THEN Returned(self, result, log)
    ELSE LET name == Head(names)
         IN  IF name = "tare"
             THEN LET t == Mpu_tare(self, env)
                  IN  IF t.outcome = "raised"
                      THEN Raised(t.self, t.raised, log \o t.log)
                      ELSE Mpu_do_command_loop(
                               t.self, Tail(names),
                               [result EXCEPT ![name] =
                                  [accel_x_offset |-> FromInt(t.self.accel_x_offset),
                                   accel_y_offset |-> FromInt(t.self.accel_y_offset),
                                   accel_z_offset |-> FromInt(t.self.accel_z_offset),
                                   gyro_x_offset |-> FromInt(t.self.gyro_x_offset),
                                   gyro_y_offset |-> FromInt(t.self.gyro_y_offset),
                                   gyro_z_offset |-> FromInt(t.self.gyro_z_offset)]],
                               env, log \o t.log)
             ELSE IF name = "reset_tare"
             THEN LET r == Mpu_reset_tare(self)
                  IN  Mpu_do_command_loop(r.self, Tail(names),
                                          [result EXCEPT ![name] = Bool(TRUE)],
                                          env, log \o r.log)
             ELSE Mpu_do_command_loop(self, Tail(names),
                                      [result EXCEPT ![name] = UnknownCommand(name)],
                                      env, log)


\* do_command that puts the attributes back as they were when a verb raises
Mpu_do_command_RollsBack(self, command, env) ==
    LET r == Mpu_do_command_loop(
                 self, command,
                 [key \in {command[i] : i \in DOMAIN command} |-> Bool(FALSE)],
                 env, <<>>)
    IN  IF r.outcome = "raised" THEN Raised(self, r.raised, r.log) ELSE r

Mpu_do_command(self, command, env) ==
    Mpu_do_command_loop(
        self, command,
        [key \in {command[i] : i \in DOMAIN command} |-> Bool(FALSE)],
        env, <<>>)

(***************************************************************************)
(* BmpSensor (src/src/models/bmp.py).                                      *)
(* self: [sensor, sea_level_pressure, units, pressure_offset,              *)
(*        altitude_offset].                                                *)
(* env:  [fault, exc, temperature, pressure, altitude]: the transport call *)
(*       that raises ("none" if none), its exception, and the values       *)
(*       read_temperature, read_pressure and read_altitude return.         *)
(***************************************************************************)
DefaultSeaLevelPressure == 101325

PressureSamples == {101325, 100000}
AltitudeSamples == {100, 0}

BmpConfigs ==
    { EmptyMapping,
      [units |-> "IMPERIAL", sea_level_pressure |-> 100000] }

BmpReconfigureFaults == {"I2C", "BMP085"}
\* the transport calls get_readings and tare make
BmpReadFaults(self) ==
    IF self.sensor = None
    THEN {} ELSE {"read_temperature", "read_pressure", "read_altitude"}


\* validate_config: the first check that fails raises ValueError
BmpSensor_validate_config(fields) ==
    LET sea_level_pressure ==
            IF "sea_level_pressure" \notin DOMAIN fields THEN <<>>
            ELSE IF ~HasField(fields["sea_level_pressure"], "number_value")
            THEN <<"sea_level_pressure must be a valid number">>
            ELSE IF int(fields["sea_level_pressure"].number_value) <= 0
            THEN <<"sea_level_pressure must be a positive number">>
            ELSE <<>>
        errors == sea_level_pressure \o ValidateUnits(fields)
    IN  IF errors # <<>>
        THEN [Raised(None, "ValueError", <<>>) EXCEPT
                 !.result = [message |-> Head(errors)]]
        ELSE Returned(None, <<>>, <<>>)


\* reconfigure whose except clause re-raises and keeps the sensor it had
BmpSensor_reconfigure_KeepsSensor(self, config, env, opened) ==
    IF env.fault = "I2C"
    THEN Raised(self, env.exc, <<"I2C">>)
    ELSE IF env.fault = "BMP085"
    THEN Raised(self, env.exc, <<"I2C", "BMP085">>)
    ELSE Returned([self EXCEPT
                     !.sensor = [id |-> opened + 1, busnum |-> 1],
                     !.sea_level_pressure =
                         Get(config, "sea_level_pressure", DefaultSeaLevelPressure),
                     !.units = Lower(Get(config, "units", "metric")),
                     !.pressure_offset = 0,
                     !.altitude_offset = 0],
                  None, <<"I2C", "BMP085">>)

BmpSensor_reconfigure(self, config, env, opened) ==
    IF env.fault = "I2C"
    THEN Raised([self EXCEPT !.sensor = None], env.exc, <<"I2C">>)
    ELSE IF env.fault = "BMP085"
    THEN Raised([self EXCEPT !.sensor = None], env.exc, <<"I2C", "BMP085">>)
    ELSE Returned([self EXCEPT
                     !.sensor = [id |-> opened + 1, busnum |-> 1],
                     !.sea_level_pressure =
                         Get(config, "sea_level_pressure", DefaultSeaLevelPressure),
                     !.units = Lower(Get(config, "units", "metric")),
                     !.pressure_offset = 0,
                     !.altitude_offset = 0],
                  None, <<"I2C", "BMP085">>)



\* get_readings that reports the two offsets in metric units in either mode
BmpSensor_get_readings_MetricOffsets(self, env) ==
    IF self.sensor # None
    THEN IF env.fault \in {"read_temperature", "read_pressure", "read_altitude"}
         THEN Returned(self, EmptyMapping, <<"read_temperature">>)
         ELSE LET temperature == FromInt(env.temperature)
                  pressure == FromInt(env.pressure - self.pressure_offset)
                  altitude == FromInt(env.altitude - self.altitude_offset)
                  imperial == self.units = "imperial"
                  temp_unit == IF imperial THEN "F" ELSE "C"
                  pressure_unit == IF imperial THEN "inHg" ELSE "Pa"
                  altitude_unit == IF imperial THEN "ft" ELSE "m"
                  PressureDisplay(v) == IF imperial THEN RatMul(v, InHgPerPa) ELSE v
                  AltitudeDisplay(v) == IF imperial THEN RatMul(v, FeetPerMeter) ELSE v
              IN  Returned(self,
                      (Key("temperature", temp_unit) :>
                          IF imperial THEN Fahrenheit(temperature) ELSE temperature)
                   @@ (Key("pressure", pressure_unit) :> PressureDisplay(pressure))
                   @@ (Key("altitude", altitude_unit) :> AltitudeDisplay(altitude))
                   @@ (Key("sea_level_pressure", pressure_unit) :>
                          PressureDisplay(FromInt(self.sea_level_pressure)))
                   @@ (Key("raw_pressure", pressure_unit) :>
                          PressureDisplay(FromInt(env.pressure)))
                   @@ (Key("raw_altitude", altitude_unit) :>
                          AltitudeDisplay(FromInt(env.altitude)))
                   @@ (Key("pressure_offset", pressure_unit) :>
                          FromInt(self.pressure_offset))
                   @@ (Key("altitude_offset", altitude_unit) :>
                          FromInt(self.altitude_offset)),
                      <<"read_temperature", "read_pressure", "read_altitude">>)
    ELSE Returned(self, EmptyMapping, <<>>)

\* get_readings that raises when there is no sensor instead of returning {}
BmpSensor_get_readings_RaisesWithoutSensor(self, env) ==
    IF self.sensor = None
    THEN Raised(self, "RuntimeError", <<>>)
    ELSE IF env.fault # "none"
    THEN Returned(self, EmptyMapping, <<"read_temperature">>)
    ELSE Returned(self, [k \in {"temperature - C"} |-> FromInt(env.temperature)],
                  <<"read_temperature", "read_pressure", "read_altitude">>)

BmpSensor_get_readings(self, env) ==
    IF self.sensor # None
    THEN IF env.fault = "read_temperature"
         THEN Returned(self, EmptyMapping, <<"read_temperature">>)
         ELSE IF env.fault = "read_pressure"
         THEN Returned(self, EmptyMapping, <<"read_temperature", "read_pressure">>)
         ELSE IF env.fault = "read_altitude"
         THEN Returned(self, EmptyMapping,
                       <<"read_temperature", "read_pressure", "read_altitude">>)
         ELSE LET temperature == FromInt(env.temperature)
                  raw_pressure == FromInt(env.pressure)
                  raw_altitude == FromInt(env.altitude)
                  pressure == FromInt(env.pressure - self.pressure_offset)
                  altitude == FromInt(env.altitude - self.altitude_offset)
                  imperial == self.units = "imperial"
                  temp_unit == IF imperial THEN "F" ELSE "C"
                  pressure_unit == IF imperial THEN "inHg" ELSE "Pa"
                  altitude_unit == IF imperial THEN "ft" ELSE "m"
                  sea_level_unit == IF imperial THEN "inHg" ELSE "Pa"
                  PressureDisplay(v) == IF imperial THEN RatMul(v, InHgPerPa) ELSE v
                  AltitudeDisplay(v) == IF imperial THEN RatMul(v, FeetPerMeter) ELSE v
                  temperature_display ==
                      IF imperial THEN Fahrenheit(temperature) ELSE temperature
              IN  Returned(self,
                      (Key("temperature", temp_unit) :> temperature_display)
                   @@ (Key("pressure", pressure_unit) :> PressureDisplay(pressure))
                   @@ (Key("altitude", altitude_unit) :> AltitudeDisplay(altitude))
                   @@ (Key("sea_level_pressure", sea_level_unit) :>
                          PressureDisplay(FromInt(self.sea_level_pressure)))
                   @@ (Key("raw_pressure", pressure_unit) :>
                          PressureDisplay(raw_pressure))
                   @@ (Key("raw_altitude", altitude_unit) :>
                          AltitudeDisplay(raw_altitude))
                   @@ (Key("pressure_offset", pressure_unit) :>
                          PressureDisplay(FromInt(self.pressure_offset)))
                   @@ (Key("altitude_offset", altitude_unit) :>
                          AltitudeDisplay(FromInt(self.altitude_offset))),
                      <<"read_temperature", "read_pressure", "read_altitude">>)
    ELSE Returned(self, EmptyMapping, <<>>)

\* tare that stores the two samples in each other's offset
BmpSensor_tare_Swapped(self, env) ==
    IF self.sensor = None
    THEN Raised(self, "RuntimeError", <<>>)
    ELSE IF env.fault = "read_pressure"
    THEN Raised(self, env.exc, <<"read_pressure">>)
    ELSE IF env.fault = "read_altitude"
    THEN Raised([self EXCEPT !.altitude_offset = env.pressure], env.exc,
                <<"read_pressure", "read_altitude">>)
    ELSE Returned([self EXCEPT !.pressure_offset = env.altitude,
                               !.altitude_offset = env.pressure],
                  None, <<"read_pressure", "read_altitude">>)


\* tare that returns without a word when there is no sensor
BmpSensor_tare_SilentWithoutSensor(self, env) ==
    IF self.sensor = None
    THEN Returned(self, None, <<>>)
    ELSE IF env.fault = "read_pressure"
    THEN Raised(self, env.exc, <<"read_pressure">>)
    ELSE IF env.fault = "read_altitude"
    THEN Raised([self EXCEPT !.pressure_offset = env.pressure], env.exc,
                <<"read_pressure", "read_altitude">>)
    ELSE Returned([self EXCEPT !.pressure_offset = env.pressure,
                               !.altitude_offset = env.altitude],
                  None, <<"read_pressure", "read_altitude">>)

BmpSensor_tare(self, env) ==
    IF self.sensor = None
    THEN Raised(self, "RuntimeError", <<>>)
    ELSE IF env.fault = "read_pressure"
    THEN Raised(self, env.exc, <<"read_pressure">>)
    ELSE IF env.fault = "read_altitude"
    THEN \* pressure_offset was assigned before read_altitude raised
         Raised([self EXCEPT !.pressure_offset = env.pressure], env.exc,
                <<"read_pressure", "read_altitude">>)
    ELSE Returned([self EXCEPT !.pressure_offset = env.pressure,
                               !.altitude_offset = env.altitude],
                  None, <<"read_pressure", "read_altitude">>)

BmpSensor_reset_tare(self) ==
    Returned([self EXCEPT !.pressure_offset = 0, !.altitude_offset = 0],
             None, <<>>)

RECURSIVE BmpSensor_do_command_loop(_, _, _, _, _)
BmpSensor_do_command_loop(self, names, result, env, log) ==
    IF names = <<>>
    THEN Returned(self, result, log)
    ELSE LET name == Head(names)
         IN  IF name = "tare"
             THEN LET t == BmpSensor_tare(self, env)
                  IN  IF t.outcome = "raised"
                      THEN Raised(t.self, t.raised, log \o t.log)
                      ELSE BmpSensor_do_command_loop(
                               t.self, Tail(names),
                               [result EXCEPT ![name] =
                                  [pressure_offset |-> FromInt(t.self.pressure_offset),
                                   altitude_offset |-> FromInt(t.self.altitude_offset)]],
                               env, log \o t.log)
             ELSE IF name = "reset_tare"
             THEN LET r == BmpSensor_reset_tare(self)
                  IN  BmpSensor_do_command_loop(r.self, Tail(names),
                                                [result EXCEPT ![name] = Bool(TRUE)],
                                                env, log \o r.log)
             ELSE BmpSensor_do_command_loop(
                      self, Tail(names),
                      [result EXCEPT ![name] = UnknownCommand(name)], env, log)

BmpSensor_do_command(self, command, env) ==
    BmpSensor_do_command_loop(
        self, command,
        [key \in {command[i] : i \in DOMAIN command} |-> Bool(FALSE)],
        env, <<>>)

(***************************************************************************)
(* The state machine.                                                      *)
(*   adapter  which adapter instance this behaviour follows                *)
(*   lc, mpu, bmp  the attributes of the LoadCell / Mpu / BmpSensor object *)
(*   opens    transport opens (device constructions) made so far           *)
(*   last     the last call: its name, the transport behaviour it met      *)
(*            (env), the exception the transport threw (thrown), how the   *)
(*            call ended (outcome, raised, result), the transport calls it *)
(*            made (log), the object's attributes before it (pre), and the *)
(*            kind of call the one before it was (prev)                    *)
(*   loop     the coroutines scheduled on the event loop (used when calls  *)
(*            are scheduled concurrently; idle otherwise)                  *)
(***************************************************************************)
NoEnv == [fault |-> "none", exc |-> NoException]

\* an event loop with nothing scheduled
Idle == [tasks |-> <<>>, stamp |-> EmptyMapping]

\* the exception the transport threw during a call with behaviour env that
\* made the transport calls log
Thrown(env, log) ==
    IF \E i \in DOMAIN log : log[i] = env.fault THEN env.exc ELSE NoException

\* the hardware handle of an adapter object
HandleOf(self) == IF "hx711" \in DOMAIN self THEN self.hx711 ELSE self.sensor

\* the kind of a call c, as far as the call after it is concerned:
\*   "failed"  a get_readings or tare that raised on a handle that was present
\*   "tared"   a tare that returned
Kind(c) ==
    CASE c.op \in {"get_readings", "tare"} /\ c.outcome = "raised"
            /\ HandleOf(c.pre) # None -> "failed"
      [] c.op = "tare" /\ c.outcome = "returned" -> "tared"
      [] OTHER -> "other"

Call(op, env, r, pre) ==
    [op |-> op, env |-> env, thrown |-> Thrown(env, r.log),
     outcome |-> r.outcome, raised |-> r.raised, result |-> r.result,
     log |-> r.log, pre |-> pre,
     prev |-> Kind(last)]

\* the transport behaviours of one call: every transport call succeeds and
\* the reads return one of values, or the call named by one of faults raises
\* one of Exceptions
Envs(faults, values) ==
    {NoEnv @@ v : v \in values}
    \cup {[fault |-> f, exc |-> e] : f \in faults, e \in Exceptions}

NoValues == {EmptyMapping}

\* the object new() returns: reconfigure with the default attributes succeeded
InitLoadCell ==
    [hx711 |-> [id |-> 1, dout_pin |-> DefaultDoutPin, pd_sck_pin |-> DefaultSckPin,
                channel |-> "A", gain |-> DefaultGain, reset |-> TRUE],
     gain |-> DefaultGain, doutPin |-> DefaultDoutPin, sckPin |-> DefaultSckPin,
     numberOfReadings |-> DefaultNumberOfReadings, tare_offset |-> Zero]

InitMpu ==
    [sensor |-> [id |-> 1, address |-> DefaultI2cAddress],
     i2c_address |-> DefaultI2cAddress, units |-> "metric",
     sample_rate |-> DefaultSampleRate,
     accel_x_offset |-> 0, accel_y_offset |-> 0, accel_z_offset |-> 0,
     gyro_x_offset |-> 0, gyro_y_offset |-> 0, gyro_z_offset |-> 0]

InitBmp ==
    [sensor |-> [id |-> 1, busnum |-> 1],
     sea_level_pressure |-> DefaultSeaLevelPressure, units |-> "metric",
     pressure_offset |-> 0, altitude_offset |-> 0]

Init ==
    /\ adapter \in {"loadcell", "mpu", "bmp"}
    /\ lc = InitLoadCell
    /\ mpu = InitMpu
    /\ bmp = InitBmp
    /\ opens = 1
    /\ loop = Idle
    /\ last = [op |-> "new", env |-> NoEnv, thrown |-> NoException,
               outcome |-> "returned", raised |-> NoException, result |-> None,
               log |-> <<>>, pre |-> None,
               prev |-> "other"]

\* command mappings: up to MaxCmdLen distinct names in iteration order
CommandNames == {"tare", "reset_tare", "unknown_command"}
Commands ==
    {c \in UNION {[1..n -> CommandNames] : n \in 1..MaxCmdLen} :
        \A i, j \in DOMAIN c : i # j => c[i] # c[j]}

HasTare(command) == \E i \in DOMAIN command : command[i] = "tare"

\* one call on the load cell ending as r
LoadCellStep(op, env, r) ==
    /\ opens + Opens(r.log) <= MaxOpens
    /\ lc' = r.self
    /\ opens' = opens + Opens(r.log)
    /\ last' = Call(op, env, r, lc)
    /\ UNCHANGED <<adapter, mpu, bmp, loop>>

\* what get_raw_data(times=numberOfReadings) returns
LoadCellMeasures ==
    {[measures |-> SubSeq(m, 1, lc.numberOfReadings)] : m \in RawSamples}

LoadCellReconfigure ==
    /\ adapter = "loadcell"
    /\ \E config \in LoadCellConfigs, env \in Envs(LoadCellOpenFaults(lc), NoValues) :
          LoadCellStep("reconfigure", env @@ [config |-> config],
                       LoadCell_reconfigure(lc, config, env, opens))

LoadCellClose ==
    /\ adapter = "loadcell"
    /\ LoadCellStep("close", NoEnv, LoadCell_close(lc))

LoadCellGetReadings ==
    /\ adapter = "loadcell"
    /\ \E env \in Envs(LoadCellFaults(lc), LoadCellMeasures) :
          LoadCellStep("get_readings", env, LoadCell_get_readings(lc, env, opens))

LoadCellTare ==
    /\ adapter = "loadcell"
    /\ \E env \in Envs(LoadCellFaults(lc), LoadCellMeasures) :
          LoadCellStep("tare", env, LoadCell_tare(lc, env, opens))

LoadCellDoCommand ==
    /\ adapter = "loadcell"
    /\ \E command \in Commands :
       \E env \in IF HasTare(command)
                  THEN Envs(LoadCellFaults(lc), LoadCellMeasures) ELSE {NoEnv} :
          LoadCellStep("do_command", env @@ [command |-> command],
                       LoadCell_do_command(lc, command, env, opens))

\* one call on the IMU ending as r
MpuStep(op, env, r) ==
    /\ opens + Opens(r.log) <= MaxOpens
    /\ mpu' = r.self
    /\ opens' = opens + Opens(r.log)
    /\ last' = Call(op, env, r, mpu)
    /\ UNCHANGED <<adapter, lc, bmp, loop>>

\* what the sensor properties return when read (nothing is read without a sensor)
MpuValues ==
    IF mpu.sensor = None
    THEN NoValues
    ELSE {[acceleration |-> a, gyro |-> g, temperature |-> t] :
            a \in AccelSamples, g \in GyroSamples, t \in TemperatureSamples}

MpuReconfigure ==
    /\ adapter = "mpu"
    /\ \E config \in MpuConfigs, env \in Envs(MpuReconfigureFaults, NoValues) :
          MpuStep("reconfigure", env @@ [config |-> config],
                  Mpu_reconfigure(mpu, config, env, opens))

MpuGetReadings ==
    /\ adapter = "mpu"
    /\ \E env \in Envs(MpuReadFaults(mpu), MpuValues) :
          MpuStep("get_readings", env, Mpu_get_readings(mpu, env))

MpuTare ==
    /\ adapter = "mpu"
    /\ \E env \in Envs(MpuTareFaults(mpu), MpuValues) :
          MpuStep("tare", env, Mpu_tare(mpu, env))

MpuResetTare ==
    /\ adapter = "mpu"
    /\ MpuStep("reset_tare", NoEnv, Mpu_reset_tare(mpu))

MpuDoCommand ==
    /\ adapter = "mpu"
    /\ \E command \in Commands :
       \E env \in IF HasTare(command)
                  THEN Envs(MpuTareFaults(mpu), MpuValues) ELSE {NoEnv} :
          MpuStep("do_command", env @@ [command |-> command],
                  Mpu_do_command(mpu, command, env))

\* one call on the barometer ending as r
BmpStep(op, env, r) ==
    /\ opens + Opens(r.log) <= MaxOpens
    /\ bmp' = r.self
    /\ opens' = opens + Opens(r.log)
    /\ last' = Call(op, env, r, bmp)
    /\ UNCHANGED <<adapter, lc, mpu, loop>>

\* what the read methods return (nothing is read without a sensor)
BmpValues ==
    IF bmp.sensor = None
    THEN NoValues
    ELSE {[temperature |-> t, pressure |-> p, altitude |-> a] :
            t \in TemperatureSamples, p \in PressureSamples, a \in AltitudeSamples}

\* the transport behaviours of tare: when read_altitude raises, read_pressure
\* has returned a value before
BmpTareEnvs ==
    IF bmp.sensor = None
    THEN {NoEnv}
    ELSE Envs({"read_pressure"}, BmpValues)
         \cup {[fault |-> "read_altitude", exc |-> e, pressure |-> p] :
                 e \in Exceptions, p \in PressureSamples}

BmpReconfigure ==
    /\ adapter = "bmp"
    /\ \E config \in BmpConfigs, env \in Envs(BmpReconfigureFaults, NoValues) :
          BmpStep("reconfigure", env @@ [config |-> config],
                  BmpSensor_reconfigure(bmp, config, env, opens))

BmpGetReadings ==
    /\ adapter = "bmp"
    /\ \E env \in Envs(BmpReadFaults(bmp), BmpValues) :
          BmpStep("get_readings", env, BmpSensor_get_readings(bmp, env))

BmpTare ==
    /\ adapter = "bmp"
    /\ \E env \in BmpTareEnvs :
          BmpStep("tare", env, BmpSensor_tare(bmp, env))

BmpResetTare ==
    /\ adapter = "bmp"
    /\ BmpStep("reset_tare", NoEnv, BmpSensor_reset_tare(bmp))

BmpDoCommand ==
    /\ adapter = "bmp"
    /\ \E command \in Commands :
       \E env \in IF HasTare(command)
                  THEN BmpTareEnvs ELSE {NoEnv} :
          BmpStep("do_command", env @@ [command |-> command],
                  BmpSensor_do_command(bmp, command, env))

Next ==
    \/ LoadCellReconfigure
    \/ LoadCellClose
    \/ LoadCellGetReadings
    \/ LoadCellTare
    \/ LoadCellDoCommand
    \/ MpuReconfigure
    \/ MpuGetReadings
    \/ MpuTare
    \/ MpuResetTare
    \/ MpuDoCommand
    \/ BmpReconfigure
    \/ BmpGetReadings
    \/ BmpTare
    \/ BmpResetTare
    \/ BmpDoCommand

Spec == Init /\ [][Next]_vars


(***************************************************************************)
(* validate_config on its own.  It is a class method that reads nothing    *)
(* but its argument: the initial state holds the attributes it is given    *)
(* (last.env.fields) and the one step is the call.                         *)
(***************************************************************************)
\* n/2 as a float: 0.5, 40.5, ...
Half(n) == Rat(n, 2, TRUE)

\* a field the configuration does not have
Absent == [kind |-> "absent"]

\* the attributes of a configuration: its fields that are present
Fields(config) == [k \in {f \in DOMAIN config : config[f] # Absent} |-> config[k]]

GainValues ==
    {Absent, String("64")}
    \cup {Number(r) : r \in {FromInt(16), FromInt(32), FromInt(64), FromInt(128),
                             Half(129)}}
DoutPinValues ==
    {Absent, String("5")}
    \cup {Number(r) : r \in {FromInt(0), Half(1), FromInt(1), FromInt(40), Half(81),
                             FromInt(41)}}
SckPinValues ==
    {Absent} \cup {Number(r) : r \in {FromInt(0), FromInt(6), Half(81), FromInt(50)}}
NumberOfReadingsValues ==
    {Absent, String("3")}
    \cup {Number(r) : r \in {FromInt(0), Half(1), FromInt(1), FromInt(99), Half(199),
                             FromInt(100), FromInt(150)}}
TareOffsetValues ==
    {Absent, String("0")}
    \cup {Number(r) : r \in {FromInt(-8200), Half(-1), FromInt(0), Half(1),
                             FromInt(100)}}
\* a field validate_config does not know
OtherValues == {Absent, String("bench 2")}

LoadCellFields ==
    {Fields(c) : c \in [gain : GainValues, doutPin : DoutPinValues,
                        sckPin : SckPinValues,
                        numberOfReadings : NumberOfReadingsValues,
                        tare_offset : TareOffsetValues, comment : OtherValues]}

I2cAddressValues ==
    {Absent, String("0x68")}
    \cup {Number(r) : r \in {FromInt(7), Half(15), FromInt(8), FromInt(104),
                             FromInt(119), Half(239), FromInt(120)}}
UnitsValues ==
    {Absent, Number(FromInt(1))}
    \cup {String(s) : s \in {"metric", "imperial", "Metric", "IMPERIAL", "kelvin"}}
SampleRateValues ==
    {Absent, String("100")}
    \cup {Number(r) : r \in {FromInt(-1), FromInt(0), Half(1), FromInt(1),
                             FromInt(100)}}
SeaLevelPressureValues ==
    {Absent, String("101325")}
    \cup {Number(r) : r \in {FromInt(-1), FromInt(0), Half(1), FromInt(1),
                             FromInt(101325)}}

MpuFields ==
    {Fields(c) : c \in [i2c_address : I2cAddressValues, units : UnitsValues,
                        sample_rate : SampleRateValues, comment : OtherValues]}
BmpFields ==
    {Fields(c) : c \in [sea_level_pressure : SeaLevelPressureValues,
                        units : UnitsValues, comment : OtherValues]}

ValidateInit ==
    /\ adapter \in {"loadcell", "mpu", "bmp"}
    /\ lc = InitLoadCell
    /\ mpu = InitMpu
    /\ bmp = InitBmp
    /\ opens = 1
    /\ loop = Idle
    /\ \E fields \in CASE adapter = "loadcell" -> LoadCellFields
                       [] adapter = "mpu" -> MpuFields
                       [] OTHER -> BmpFields :
          last = [op |-> "new", env |-> NoEnv @@ [fields |-> fields],
                  thrown |-> NoException, outcome |-> "returned",
                  raised |-> NoException, result |-> None, log |-> <<>>,
                  pre |-> None, prev |-> "other"]

\* one call of validate_config ending as r
ValidateStep(r) ==
    /\ last.op = "new"
    /\ last' = Call("validate_config", last.env, r, None)
    /\ UNCHANGED <<adapter, lc, mpu, bmp, opens, loop>>

LoadCellValidateConfig ==
    /\ adapter = "loadcell"
    /\ ValidateStep(LoadCell_validate_config(last.env.fields))

MpuValidateConfig ==
    /\ adapter = "mpu"
    /\ ValidateStep(Mpu_validate_config(last.env.fields))

BmpValidateConfig ==
    /\ adapter = "bmp"
    /\ ValidateStep(BmpSensor_validate_config(last.env.fields))

ValidateNext ==
    \/ LoadCellValidateConfig
    \/ MpuValidateConfig
    \/ BmpValidateConfig

ValidateSpec == ValidateInit /\ [][ValidateNext]_vars

(***************************************************************************)
(* Vocabulary of the properties.                                           *)
(***************************************************************************)
\* the tare offsets of an adapter object, as floats
TareOffsets(self) ==
    IF "tare_offset" \in DOMAIN self
    THEN <<self.tare_offset>>
    ELSE IF "pressure_offset" \in DOMAIN self
    THEN <<FromInt(self.pressure_offset), FromInt(self.altitude_offset)>>
    ELSE <<FromInt(self.accel_x_offset), FromInt(self.accel_y_offset),
           FromInt(self.accel_z_offset), FromInt(self.gyro_x_offset),
           FromInt(self.gyro_y_offset), FromInt(self.gyro_z_offset)>>

\* the object this behaviour follows
Current == CASE adapter = "loadcell" -> lc [] adapter = "mpu" -> mpu [] OTHER -> bmp

\* the last call was a call of one of ops
LastIs(ops) == last.op \in ops

\* the last call met no transport error and produced what it is for
Succeeded ==
    /\ last.outcome = "returned"
    /\ last.thrown = NoException
    /\ last.op = "get_readings" => DOMAIN last.result # {}

\* the names of the last do_command's mapping
CommandKeys == {last.env.command[i] : i \in DOMAIN last.env.command}

(***************************************************************************)
(* C1.  Load cell: whenever get_readings() or tare() raises, hx711 is None *)
(* afterwards and the exception the caller sees is the very exception the  *)
(* transport raised.                                                       *)
(***************************************************************************)
C1_RaiseDiscardsHandle ==
    (adapter = "loadcell" /\ LastIs({"get_readings", "tare"})
        /\ last.outcome = "raised")
    => /\ lc.hx711 = None
       /\ last.thrown \in Exceptions
       /\ last.raised = last.thrown

\* a tare on an open handle whose raw read raised TimeoutError
C1_Witness ==
    /\ adapter = "loadcell"
    /\ last.op = "tare"
    /\ last.outcome = "raised"
    /\ last.pre.hx711 # None
    /\ last.env.fault = "get_raw_data"
    /\ last.raised = "TimeoutError"
    /\ lc.hx711 = None

(***************************************************************************)
(* C2.  IMU and barometer: after any failure of a read or tare call the    *)
(* sensor handle is discarded (sensor is None).  The code keeps the handle *)
(* (get_readings returns {} and tare re-raises, neither touches            *)
(* self.sensor), so this fails.                                            *)
(***************************************************************************)
C2_FailureDiscardsSensor ==
    (adapter \in {"mpu", "bmp"} /\ LastIs({"get_readings", "tare"})
        /\ last.thrown # NoException)
    => Current.sensor = None

(***************************************************************************)
(* C3.  Load cell: the get_readings() or tare() call that follows a failed *)
(* get_readings() or tare() on an open handle finds the handle discarded   *)
(* and opens the transport exactly once; when it returns, the handle in    *)
(* use is the newly opened one.                                            *)
(***************************************************************************)
C3_ReacquireOnce ==
    (adapter = "loadcell" /\ last.prev = "failed"
        /\ LastIs({"get_readings", "tare"}))
    => /\ last.pre.hx711 = None
       /\ Opens(last.log) = 1
       /\ last.log[1] = "HX711"
       /\ last.outcome = "returned" =>
             /\ lc.hx711 # None
             /\ lc.hx711.id = opens
             /\ last.log = <<"HX711", "reset", "get_raw_data">>

\* a get_readings that followed a failed call and re-opened the handle
C3_Witness ==
    /\ adapter = "loadcell"
    /\ last.prev = "failed"
    /\ last.op = "get_readings"
    /\ last.outcome = "returned"
    /\ lc.hx711 # None
    /\ lc.hx711.id = opens
    /\ opens > 1

(***************************************************************************)
(* C4.  A get_readings() or tare() call that succeeds leaves a handle      *)
(* open, and when the handle was open before the call it is the same       *)
(* handle and the transport was not opened: consecutive successful calls   *)
(* open the transport zero additional times.                               *)
(***************************************************************************)
C4_SuccessKeepsHandle ==
    (LastIs({"get_readings", "tare"}) /\ Succeeded)
    => /\ HandleOf(Current) # None
       /\ HandleOf(last.pre) # None =>
             /\ HandleOf(Current) = HandleOf(last.pre)
             /\ Opens(last.log) = 0

\* a successful load cell read right after a successful tare, on one handle
C4_Witness ==
    /\ adapter = "loadcell"
    /\ last.prev = "tared"
    /\ last.op = "get_readings"
    /\ Succeeded
    /\ last.pre.hx711 # None
    /\ lc.hx711 = last.pre.hx711
    /\ Opens(last.log) = 0

(***************************************************************************)
(* C5.  In each adapter, if tare() raises, every tare offset has the value *)
(* it had before the call.  BmpSensor.tare assigns pressure_offset before  *)
(* read_altitude is called, so this fails for the barometer.               *)
(***************************************************************************)
C5_FailedTareKeepsOffsets ==
    (last.op = "tare" /\ last.outcome = "raised")
    => TareOffsets(Current) = TareOffsets(last.pre)

(***************************************************************************)
(* C6.  IMU and barometer: reset_tare() returns (never raises), leaves     *)
(* every tare offset 0, makes no transport call and changes no other       *)
(* attribute, whatever the offsets were and whether or not the sensor      *)
(* handle is present.                                                      *)
(***************************************************************************)
C6_ResetTareZeroes ==
    (adapter \in {"mpu", "bmp"} /\ last.op = "reset_tare")
    => /\ last.outcome = "returned"
       /\ \A i \in DOMAIN TareOffsets(Current) : TareOffsets(Current)[i] = Zero
       /\ last.log = <<>>
       /\ \A f \in DOMAIN Current :
             f \notin {"accel_x_offset", "accel_y_offset", "accel_z_offset",
                       "gyro_x_offset", "gyro_y_offset", "gyro_z_offset",
                       "pressure_offset", "altitude_offset"}
             => Current[f] = last.pre[f]

\* reset_tare on an IMU without a sensor handle whose six offsets were non-zero
C6_Witness ==
    /\ adapter = "mpu"
    /\ last.op = "reset_tare"
    /\ last.pre.sensor = None
    /\ mpu.sensor = None
    /\ last.pre.accel_x_offset # 0
    /\ last.pre.gyro_z_offset # 0
    /\ mpu.gyro_z_offset = 0

(***************************************************************************)
(* C7.  In every adapter a do_command whose mapping contains 'reset_tare'  *)
(* returns a success indicator for that key (not False), and when          *)
(* 'reset_tare' is the last verb of the mapping the tare offsets are zero  *)
(* afterwards.  LoadCell.do_command knows only 'tare', so this fails for   *)
(* the load cell.                                                          *)
(***************************************************************************)
C7_ResetTareEverywhere ==
    (last.op = "do_command" /\ last.outcome = "returned"
        /\ "reset_tare" \in CommandKeys)
    => /\ last.result["reset_tare"] # Bool(FALSE)
       /\ last.env.command[Len(last.env.command)] = "reset_tare" =>
             \A i \in DOMAIN TareOffsets(Current) :
                 TareOffsets(Current)[i] = Zero

(***************************************************************************)
(* C8.  In all three adapters do_command answers every name other than     *)
(* 'tare' and 'reset_tare' with the error descriptor {error: 'Unknown      *)
(* command: <name>', available_commands: ['tare', 'reset_tare']}, and a    *)
(* mapping of such names only changes no attribute.  LoadCell.do_command   *)
(* leaves False for such a name (and for 'reset_tare'), so this fails for  *)
(* the load cell.                                                          *)
(***************************************************************************)
C8_UnknownCommandDescriptor ==
    (last.op = "do_command" /\ last.outcome = "returned")
    => /\ \A name \in CommandKeys \ {"tare", "reset_tare"} :
             last.result[name] =
                 [error |-> "Unknown command: " \o name,
                  available_commands |-> <<"tare", "reset_tare">>]
       /\ CommandKeys \cap {"tare", "reset_tare"} = {} => Current = last.pre

(***************************************************************************)
(* Vocabulary of the tare properties.                                      *)
(***************************************************************************)
\* the two calls met the same raw values
SameRaw(e1, e2) ==
    /\ e1.fault = "none"
    /\ e2.fault = "none"
    /\ \A f \in {"measures", "acceleration", "gyro", "pressure", "altitude"} :
          /\ f \in DOMAIN e1 <=> f \in DOMAIN e2
          /\ f \in DOMAIN e1 => e1[f] = e2[f]

\* the keys of the tared quantities of a reading, in both unit systems
TaredKeys ==
    {Key(n, u) : n \in {"acceleration_x", "acceleration_y", "acceleration_z"},
                 u \in {"m/s2", "ft/s2"}}
    \cup {Key(n, u) : n \in {"gyro_x", "gyro_y", "gyro_z"}, u \in {"rad/s", "deg/s"}}
    \cup {Key("pressure", u) : u \in {"Pa", "inHg"}}
    \cup {Key("altitude", u) : u \in {"m", "ft"}}
    \cup {"weight"}

\* how many tared quantities a reading of adapter a reports
TaredCount(a) == CASE a = "loadcell" -> 1 [] a = "mpu" -> 6 [] OTHER -> 2

RECURSIVE SumInt(_)
SumInt(s) == IF s = <<>> THEN 0 ELSE s[1] + SumInt(Tail(s))

(***************************************************************************)
(* C9.  In each adapter, a get_readings() that directly follows a          *)
(* successful tare() and meets the same raw values reports 0 for every     *)
(* tared quantity, in either unit system.  As stated (exactly 0) this      *)
(* fails for the load cell: the mean of three samples need not be a        *)
(* double, and the weight computed from it is 0 only up to rounding.       *)
(***************************************************************************)
TareThenRead ==
    /\ last.op = "tare"
    /\ last.outcome = "returned"
    /\ last'.op = "get_readings"
    /\ SameRaw(last.env, last'.env)

C9_TareThenReadIsExactlyZero ==
    [][ TareThenRead
        => /\ last'.outcome = "returned"
           /\ Cardinality(DOMAIN last'.result \cap TaredKeys) = TaredCount(adapter)
           /\ \A k \in DOMAIN last'.result \cap TaredKeys : last'.result[k] = Zero
      ]_vars

(***************************************************************************)
(* C9 as amended.  Such a get_readings() reports every tared quantity      *)
(* (IMU: three acceleration and three gyro readings; barometer: pressure   *)
(* and altitude; load cell: weight) with the value 0 in real arithmetic,   *)
(* in either unit system; the double is exactly 0.0 for the IMU and the    *)
(* barometer, and for the load cell when every sample equals the stored    *)
(* mean (always so with numberOfReadings = 1), and 0 up to rounding        *)
(* otherwise.                                                              *)
(***************************************************************************)
C9_TareThenReadIsZero ==
    [][ TareThenRead
        => /\ last'.outcome = "returned"
           /\ Cardinality(DOMAIN last'.result \cap TaredKeys) = TaredCount(adapter)
           /\ \A k \in DOMAIN last'.result \cap TaredKeys :
                 /\ last'.result[k][1] = 0
                 /\ (\/ adapter \in {"mpu", "bmp"}
                     \/ \A i \in DOMAIN last'.env.measures :
                           last'.env.measures[i] * last'.pre.tare_offset[2]
                              = last'.pre.tare_offset[1])
                       => last'.result[k] = Zero
      ]_vars

\* an imperial IMU reading right after a tare, on the non-zero sample tared
C9_Witness ==
    /\ adapter = "mpu"
    /\ last.prev = "tared"
    /\ last.op = "get_readings"
    /\ mpu.units = "imperial"
    /\ last.env.fault = "none"
    /\ last.env.acceleration =
          <<mpu.accel_x_offset, mpu.accel_y_offset, mpu.accel_z_offset>>
    /\ last.env.gyro = <<mpu.gyro_x_offset, mpu.gyro_y_offset, mpu.gyro_z_offset>>
    /\ last.env.acceleration[3] # 0
    /\ last.result["acceleration_z - ft/s2"] = Zero
    /\ last.result["gyro_x - deg/s"] = Zero

(***************************************************************************)
(* C10.  After a successful tare() each tare offset equals the raw value   *)
(* read during that call (load cell: the sum of the numberOfReadings raw   *)
(* samples divided by numberOfReadings, as n/d with n * numberOfReadings   *)
(* = sum * d), whatever the offset was before;                             *)
(* and a second tare() directly after it on the same raw values leaves the *)
(* offsets as they are.                                                    *)
(***************************************************************************)
TareSetsOffsets ==
    (last.op = "tare" /\ last.outcome = "returned")
    => CASE adapter = "loadcell" ->
               /\ Len(last.env.measures) = lc.numberOfReadings
               /\ lc.tare_offset[1] * lc.numberOfReadings
                     = SumInt(last.env.measures) * lc.tare_offset[2]
         [] adapter = "mpu" ->
               /\ <<mpu.accel_x_offset, mpu.accel_y_offset, mpu.accel_z_offset>>
                     = last.env.acceleration
               /\ <<mpu.gyro_x_offset, mpu.gyro_y_offset, mpu.gyro_z_offset>>
                     = last.env.gyro
         [] OTHER ->
               /\ bmp.pressure_offset = last.env.pressure
               /\ bmp.altitude_offset = last.env.altitude

C10_TareReplacesOffsets ==
    [][ /\ TareSetsOffsets'
        /\ (/\ last.op = "tare"
            /\ last.outcome = "returned"
            /\ last'.op = "tare"
            /\ SameRaw(last.env, last'.env))
           => /\ last'.outcome = "returned"
              /\ TareOffsets(Current)' = TareOffsets(Current)
      ]_vars

\* a second load cell tare in a row: the offset is again the mean of three samples
C10_Witness ==
    /\ adapter = "loadcell"
    /\ last.prev = "tared"
    /\ last.op = "tare"
    /\ last.outcome = "returned"
    /\ lc.numberOfReadings = 3
    /\ lc.tare_offset[2] = 3
    /\ last.pre.tare_offset = lc.tare_offset

MpuOffsetNames ==
    <<"accel_x_offset", "accel_y_offset", "accel_z_offset",
      "gyro_x_offset", "gyro_y_offset", "gyro_z_offset">>
MpuReadingNames ==
    <<"acceleration_x", "acceleration_y", "acceleration_z",
      "gyro_x", "gyro_y", "gyro_z">>

\* the raw value of reading i in the transport behaviour env
MpuRaw(env, i) == IF i <= 3 THEN env.acceleration[i] ELSE env.gyro[i - 3]

\* unit label and metric -> imperial factor of reading i
MpuUnit(i, imperial) ==
    IF i <= 3 THEN (IF imperial THEN "ft/s2" ELSE "m/s2")
              ELSE (IF imperial THEN "deg/s" ELSE "rad/s")
MpuFactor(i) == IF i <= 3 THEN FeetPerMeter ELSE DegPerRad

\* v in the unit system: times factor in imperial mode, as it is in metric mode
Displayed(v, factor, imperial) == IF imperial THEN RatMul(v, factor) ELSE v

(***************************************************************************)
(* C12.  Mpu.reconfigure sets the six tare offsets from the configuration  *)
(* attributes accel_x/y/z_offset and gyro_x/y/z_offset (0.0 when absent),  *)
(* and the get_readings() that follows subtracts those configured offsets  *)
(* from the raw values.  Mpu.reconfigure never reads these attributes and  *)
(* assigns 0.0 to all six offsets, so this fails.                          *)
(***************************************************************************)
C12_ReconfigureTakesOffsets ==
    [][ /\ (adapter = "mpu" /\ last'.op = "reconfigure"
               /\ last'.outcome = "returned")
           => \A i \in 1..6 :
                 mpu'[MpuOffsetNames[i]]
                    = Get(last'.env.config, MpuOffsetNames[i], 0)
        /\ (adapter = "mpu" /\ last.op = "reconfigure"
               /\ last.outcome = "returned"
               /\ last'.op = "get_readings" /\ last'.env.fault = "none")
           => \A i \in 1..6 :
                 LET imperial == mpu.units = "imperial"
                     key == Key(MpuReadingNames[i], MpuUnit(i, imperial))
                 IN  /\ key \in DOMAIN last'.result
                     /\ last'.result[key] =
                           Displayed(
                               FromInt(MpuRaw(last'.env, i)
                                  - Get(last.env.config, MpuOffsetNames[i], 0)),
                               MpuFactor(i), imperial)
      ]_vars

(***************************************************************************)
(* C13.  reconfigure always clears the existing handle: after a reconfigure*)
(* that returned, the handle in use was opened during that reconfigure     *)
(* with the new configuration values (load cell: the new doutPin, sckPin   *)
(* and gain; IMU: the new i2c_address), and after one that raised no       *)
(* handle is left.  LoadCell.reconfigure opens a handle only when there is *)
(* none, so a load cell that is open keeps the handle built from the       *)
(* previous configuration and this fails.                                  *)
(***************************************************************************)
C13_ReconfigureReopens ==
    last.op = "reconfigure"
    => IF last.outcome = "raised"
       THEN HandleOf(Current) = None
       ELSE /\ HandleOf(Current) # None
            /\ Opens(last.log) = 1
            /\ HandleOf(Current).id = opens
            /\ adapter = "loadcell" =>
                  /\ lc.hx711.dout_pin = lc.doutPin
                  /\ lc.hx711.pd_sck_pin = lc.sckPin
                  /\ lc.hx711.gain = lc.gain
            /\ adapter = "mpu" => mpu.sensor.address = mpu.i2c_address

Given == last.env.fields

\* field name is absent, or a number r with InRange(r)
NumberIn(name, InRange(_)) ==
    name \in DOMAIN Given
    => /\ Given[name].kind = "number_value"
       /\ InRange(Given[name].number_value)

\* lo <= r, r <= hi, r < hi for a float r and integers lo, hi
AtLeast(r, lo) == r[1] >= lo * r[2]
AtMost(r, hi) == r[1] <= hi * r[2]
Below(r, hi) == r[1] < hi * r[2]

GainOk(r) == r \in {FromInt(32), FromInt(64), FromInt(128)}
PinOk(r) == AtLeast(r, 1) /\ AtMost(r, 40)
ReadingsOk(r) == AtLeast(r, 1) /\ Below(r, 100)
TareOffsetOk(r) == AtMost(r, 0)
AddressOk(r) == AtLeast(r, 8) /\ AtMost(r, 119)
Positive(r) == r[1] > 0

UnitsOk ==
    "units" \in DOMAIN Given
    => /\ Given["units"].kind = "string_value"
       /\ Lower(Given["units"].string_value) \in {"metric", "imperial"}

\* the same ranges for the integer part of the number
PinPartOk(r) == AtLeast(r, 1) /\ Below(r, 41)
AddressPartOk(r) == AtLeast(r, 8) /\ Below(r, 120)
PartPositive(r) == AtLeast(r, 1)

\* the recognized load cell fields that are present and not a number in range,
\* with Pin(_) the range of the pins
LoadCellViolations(Pin(_)) ==
    {name \in {"gain", "doutPin", "sckPin", "numberOfReadings", "tare_offset"} :
        ~ CASE name = "gain" -> NumberIn(name, GainOk)
            [] name \in {"doutPin", "sckPin"} -> NumberIn(name, Pin)
            [] name = "numberOfReadings" -> NumberIn(name, ReadingsOk)
            [] OTHER -> NumberIn(name, TareOffsetOk)}

C18_WeightIsMeanOfMeasures ==
    (adapter = "loadcell" /\ last.op = "get_readings"
        /\ last.outcome = "returned")
    => LET raw == last.env.measures
           N == last.pre.numberOfReadings
           on == last.pre.tare_offset[1]
           od == last.pre.tare_offset[2]
           weight == last.result.weight
       IN  /\ Len(raw) = N
           /\ DOMAIN last.result.measures = 1..N
           /\ \A i \in 1..N :
                 \* measures[i] = (raw[i] - on/od) / 8200
                 last.result.measures[i][1] * (RawPerKg * od)
                    = (raw[i] * od - on) * last.result.measures[i][2]
           \* weight = (sum(raw) - N * on/od) / (8200 * N)
           /\ weight[1] * (RawPerKg * N * od)
                 = (SumInt(raw) * od - N * on) * weight[2]
           /\ (raw = <<8200, 8205, 8195>> /\ last.pre.tare_offset = Zero)
                 => (weight[1] = 1 /\ weight[2] = 1)
           /\ (raw = <<8200, 8205, 8195>> /\ last.pre.tare_offset = FromInt(-8200))
                 => (weight[1] = 2 /\ weight[2] = 1)

\* raw [8200, 8205, 8195] read with the configured offset -8200: weight 2
C18_Witness ==
    /\ adapter = "loadcell"
    /\ last.op = "get_readings"
    /\ last.outcome = "returned"
    /\ last.env.measures = <<8200, 8205, 8195>>
    /\ last.pre.tare_offset = FromInt(-8200)
    /\ last.result.weight[1] = 2
    /\ last.result.weight[2] = 1
    /\ last.result.measures[2] = <<3281, 1640, FALSE>>

(***************************************************************************)
(* Vocabulary of the unit properties.                                      *)
(***************************************************************************)
\* the number a float stands for, as <<numerator, denominator>> in lowest terms
Value(x) == <<x[1], x[2]>>

\* the number i * num / den
Times(i, num, den) == Value(Rat(i * num, den, TRUE))

\* i in metric units shown in the unit system: i itself in metric mode,
\* i * num / den in imperial mode
Shown(i, num, den, imperial) == IF imperial THEN Times(i, num, den) ELSE <<i, 1>>

\* c degrees Celsius shown in the unit system: c * 9/5 + 32 in imperial mode
ShownTemperature(c, imperial) ==
    IF imperial THEN Value(Rat(c * 9 + 160, 5, TRUE)) ELSE <<c, 1>>

\* a reading that read every raw value: the last get_readings of the IMU or
\* the barometer found a sensor and met no transport error
ReadAll ==
    /\ adapter \in {"mpu", "bmp"}
    /\ last.op = "get_readings"
    /\ last.pre.sensor # None
    /\ last.env.fault = "none"

(***************************************************************************)
(* C19.  IMU and barometer get_readings(): in metric mode every reading    *)
(* is raw minus its tare offset under the metric label (m/s2, rad/s, C,    *)
(* Pa, m); in imperial mode it is (raw minus offset) times the fixed       *)
(* factor (acceleration and altitude 3.28084, angular rate 57.2958,        *)
(* pressure 0.0002953) and temperature is c * 9/5 + 32, under the imperial *)
(* label (ft/s2, deg/s, F, inHg, ft): the offset is subtracted before the  *)
(* conversion.  Values are those of the doubles in real arithmetic.        *)
(***************************************************************************)
C19_ReadingsInUnitSystem ==
    ReadAll
    => LET imperial == last.pre.units = "imperial"
           r == last.result
           Is(name, unit, v) ==
               /\ Key(name, unit) \in DOMAIN r
               /\ Value(r[Key(name, unit)]) = v
       IN  /\ last.outcome = "returned"
           /\ Is("temperature", IF imperial THEN "F" ELSE "C",
                 ShownTemperature(last.env.temperature, imperial))
           /\ adapter = "mpu" =>
                 /\ Cardinality(DOMAIN r) = 7
                 /\ \A i \in 1..3 :
                       Is(MpuReadingNames[i], IF imperial THEN "ft/s2" ELSE "m/s2",
                          Shown(last.env.acceleration[i]
                                   - last.pre[MpuOffsetNames[i]],
                                328084, 100000, imperial))
                 /\ \A i \in 4..6 :
                       Is(MpuReadingNames[i], IF imperial THEN "deg/s" ELSE "rad/s",
                          Shown(last.env.gyro[i - 3] - last.pre[MpuOffsetNames[i]],
                                572958, 10000, imperial))
           /\ adapter = "bmp" =>
                 /\ Cardinality(DOMAIN r) = 8
                 /\ Is("pressure", IF imperial THEN "inHg" ELSE "Pa",
                       Shown(last.env.pressure - last.pre.pressure_offset,
                             2953, 10000000, imperial))
                 /\ Is("altitude", IF imperial THEN "ft" ELSE "m",
                       Shown(last.env.altitude - last.pre.altitude_offset,
                             328084, 100000, imperial))

\* an imperial IMU reading of (1, 2, 10) m/s2 tared at (0, -1, 9): x is
\* 1 * 3.28084 = 82021/25000 ft/s2, and 25 C is 77 F
C19_Witness ==
    /\ adapter = "mpu"
    /\ ReadAll
    /\ mpu.units = "imperial"
    /\ last.env.acceleration = <<1, 2, 10>>
    /\ <<mpu.accel_x_offset, mpu.accel_y_offset, mpu.accel_z_offset>> = <<0, -1, 9>>
    /\ Value(last.result["acceleration_x - ft/s2"]) = <<82021, 25000>>
    /\ Value(last.result["acceleration_y - ft/s2"]) = <<246063, 25000>>
    /\ Value(last.result["temperature - F"]) = <<77, 1>>

(***************************************************************************)
(* Vocabulary of the consistency property of the barometer.                *)
(***************************************************************************)
\* the number of b minus the number of c, over their least common denominator
Minus(b, c) ==
    LET l == (b[2] \div GCD(b[2], c[2])) * c[2]
    IN  Value(Rat(b[1] * (l \div b[2]) - c[1] * (l \div c[2]), l, TRUE))

\* the number a stands for is the number of b minus the number of c
DifferenceOf(a, b, c) == Value(a) = Minus(b, c)

\* the double a is the double b - c: the numbers agree and the subtraction
\* of the two doubles is exact (both are exact, or one is 0.0, or they are
\* the same double)
ExactDifferenceOf(a, b, c) ==
    /\ DifferenceOf(a, b, c)
    /\ (b[3] /\ c[3]) \/ b = Zero \/ c = Zero \/ b = c

\* the keys of a barometer reading in a unit system
BmpKeys(imperial) ==
    LET pu == IF imperial THEN "inHg" ELSE "Pa"
        au == IF imperial THEN "ft" ELSE "m"
    IN  [temperature |-> Key("temperature", IF imperial THEN "F" ELSE "C"),
         pressure |-> Key("pressure", pu),
         raw_pressure |-> Key("raw_pressure", pu),
         pressure_offset |-> Key("pressure_offset", pu),
         sea_level_pressure |-> Key("sea_level_pressure", pu),
         altitude |-> Key("altitude", au),
         raw_altitude |-> Key("raw_altitude", au),
         altitude_offset |-> Key("altitude_offset", au)]

\* the last call was a barometer get_readings that returned a non-empty reading
BmpReading ==
    /\ adapter = "bmp"
    /\ last.op = "get_readings"
    /\ last.outcome = "returned"
    /\ last.result # EmptyMapping

(***************************************************************************)
(* C20.  Barometer: in every non-empty reading, in metric and in imperial  *)
(* mode, displayed pressure = displayed raw_pressure - displayed           *)
(* pressure_offset and displayed altitude = displayed raw_altitude -       *)
(* displayed altitude_offset, and sea_level_pressure, the raw values and   *)
(* the offsets carry the unit of the tared value.  As stated (equality of  *)
(* the doubles) this fails in imperial mode: (raw - offset) * factor and   *)
(* raw * factor - offset * factor round differently.                       *)
(***************************************************************************)
C20_ReadingIsConsistent ==
    BmpReading
    => LET k == BmpKeys(last.pre.units = "imperial")
           r == last.result
       IN  /\ DOMAIN r = {k[f] : f \in DOMAIN k}
           /\ ExactDifferenceOf(r[k.pressure], r[k.raw_pressure],
                                r[k.pressure_offset])
           /\ ExactDifferenceOf(r[k.altitude], r[k.raw_altitude],
                                r[k.altitude_offset])

(***************************************************************************)
(* C20 as amended.  In every non-empty reading the eight keys carry the    *)
(* units of one unit system (pressure, raw_pressure, pressure_offset and   *)
(* sea_level_pressure in Pa or all in inHg; altitude, raw_altitude and     *)
(* altitude_offset in m or all in ft), sea_level_pressure, the raw values  *)
(* and the offsets are the attribute or sample converted with the factor   *)
(* of the tared value, and pressure = raw_pressure - pressure_offset and   *)
(* altitude = raw_altitude - altitude_offset hold for the numbers the      *)
(* doubles stand for: exactly in metric mode, up to floating-point         *)
(* rounding in imperial mode.                                              *)
(***************************************************************************)
C20_ReadingIsConsistentUpToRounding ==
    BmpReading
    => LET imperial == last.pre.units = "imperial"
           k == BmpKeys(imperial)
           r == last.result
       IN  /\ DOMAIN r = {k[f] : f \in DOMAIN k}
           /\ DifferenceOf(r[k.pressure], r[k.raw_pressure], r[k.pressure_offset])
           /\ DifferenceOf(r[k.altitude], r[k.raw_altitude], r[k.altitude_offset])
           /\ ~imperial =>
                 /\ ExactDifferenceOf(r[k.pressure], r[k.raw_pressure],
                                      r[k.pressure_offset])
                 /\ ExactDifferenceOf(r[k.altitude], r[k.raw_altitude],
                                      r[k.altitude_offset])
           /\ Value(r[k.raw_pressure])
                 = Shown(last.env.pressure, 2953, 10000000, imperial)
           /\ Value(r[k.pressure_offset])
                 = Shown(last.pre.pressure_offset, 2953, 10000000, imperial)
           /\ Value(r[k.sea_level_pressure])
                 = Shown(last.pre.sea_level_pressure, 2953, 10000000, imperial)
           /\ Value(r[k.raw_altitude])
                 = Shown(last.env.altitude, 328084, 100000, imperial)
           /\ Value(r[k.altitude_offset])
                 = Shown(last.pre.altitude_offset, 328084, 100000, imperial)

\* an imperial reading of 101325 Pa and 0 m on a barometer tared at 100000 Pa
\* and 100 m: 1325 * 0.0002953 = 156509/400000 inHg, -328.084 ft
C20_Witness ==
    /\ BmpReading
    /\ bmp.units = "imperial"
    /\ last.env.pressure = 101325
    /\ bmp.pressure_offset = 100000
    /\ last.env.altitude = 0
    /\ bmp.altitude_offset = 100
    /\ Value(last.result["pressure - inHg"]) = <<156509, 400000>>
    /\ Value(last.result["pressure_offset - inHg"]) = <<2953, 100>>
    /\ Value(last.result["altitude - ft"]) = <<-82021, 250>>

(***************************************************************************)
(* C21  Opening the transport fails.                                       *)
(***************************************************************************)
\* the transport calls that open a handle: the HX711 constructor and its
\* reset(), the I2C bus and the MPU6050 / BMP085 constructors
OpeningCalls == {"HX711", "reset", "I2C", "MPU6050", "BMP085"}

\* C21: when a call that opens the handle (get_hx711 inside any load cell
\* call, reconfigure of the IMU and the barometer) meets a transport error in
\* the constructor or in reset(), the call raises that very exception and the
\* handle is absent afterwards.
C21_OpenFailurePropagates ==
    (last.thrown # NoException /\ last.env.fault \in OpeningCalls)
        => /\ last.outcome = "raised"
           /\ last.raised = last.thrown
           /\ last.raised \in Exceptions
           /\ HandleOf(Current) = None

\* a load cell reconfigure after close() whose HX711 was constructed but whose
\* reset() raised TimeoutError
C21_Witness ==
    /\ adapter = "loadcell"
    /\ last.op = "reconfigure"
    /\ last.pre.hx711 = None
    /\ last.env.fault = "reset"
    /\ last.log = <<"HX711", "reset">>
    /\ last.raised = "TimeoutError"
    /\ lc.hx711 = None

(***************************************************************************)
(* C22  get_readings / tare on an absent handle.                           *)
(***************************************************************************)
\* the last call was a get_readings or a tare that found the handle absent
OnAbsentHandle ==
    /\ last.op \in {"get_readings", "tare"}
    /\ HandleOf(last.pre) = None

C23_CloseIsTerminal ==
    [][ (adapter = "loadcell" /\ last.op = "close"
            /\ last'.op \in {"get_readings", "tare", "do_command"})
        => /\ Opens(last'.log) = 0
           /\ lc'.hx711 = None ]_vars

(***************************************************************************)
(* C24  No retry inside an operation.                                      *)
(***************************************************************************)
\* the transport calls that acquire raw samples
SampleCalls ==
    {"get_raw_data", "acceleration", "gyro", "temperature",
     "read_temperature", "read_pressure", "read_altitude"}

\* how many calls of log are in the set calls
CountIn(log, calls) == Cardinality({i \in DOMAIN log : log[i] \in calls})

\* C24: one get_readings or tare makes at most one attempt to open the handle
\* and acquires the raw sample at most once (no transport call is made twice),
\* and the transport call that failed is the last one the operation made.
C24_NoRetry ==
    last.op \in {"get_readings", "tare"}
    => /\ CountIn(last.log, {"HX711"}) <= 1
       /\ CountIn(last.log, {"reset"}) <= 1
       /\ \A c \in SampleCalls : CountIn(last.log, {c}) <= 1
       /\ last.thrown # NoException
             => /\ last.log[Len(last.log)] = last.env.fault
                /\ CountIn(last.log, {last.env.fault}) = 1

\* a load cell tare that opened the handle and whose get_raw_data raised:
\* three transport calls, the failed one last
C24_Witness ==
    /\ adapter = "loadcell"
    /\ last.op = "tare"
    /\ last.thrown # NoException
    /\ last.log = <<"HX711", "reset", "get_raw_data">>
    /\ last.outcome = "raised"

(***************************************************************************)
(* C25  tare and the configuration.                                        *)
(***************************************************************************)
\* the configuration attributes of an adapter object other than the load
\* cell's tare_offset
ConfigOf(self) ==
    IF "hx711" \in DOMAIN self
    THEN [gain |-> self.gain, doutPin |-> self.doutPin, sckPin |-> self.sckPin,
          numberOfReadings |-> self.numberOfReadings]
    ELSE IF "i2c_address" \in DOMAIN self
    THEN [i2c_address |-> self.i2c_address, units |-> self.units,
          sample_rate |-> self.sample_rate]
    ELSE [sea_level_pressure |-> self.sea_level_pressure, units |-> self.units]

\* the mean of the raw samples of the last call, as tare computes it
MeanOfMeasures ==
    LET measures == [i \in DOMAIN last.env.measures |-> FromInt(last.env.measures[i])]
    IN  RatDivInt(RatSum(measures), Len(measures))

C26_GetReadingsFrame ==
    last.op = "get_readings"
    => /\ TareOffsets(Current) = TareOffsets(last.pre)
       /\ ConfigOf(Current) = ConfigOf(last.pre)
       /\ adapter \in {"mpu", "bmp"} => Current = last.pre
       /\ adapter = "loadcell"
             => /\ [lc EXCEPT !.hx711 = last.pre.hx711] = last.pre
                /\ lc.hx711 # last.pre.hx711
                      => \/ last.outcome = "raised" /\ lc.hx711 = None
                         \/ /\ last.pre.hx711 = None
                            /\ last.outcome = "returned"
                            /\ lc.hx711 # None
                            /\ last.log[1] = "HX711"

\* a load cell get_readings on a tared, open load cell whose raw read raised:
\* the handle is gone, the tare offset is the one held before
C26_Witness ==
    /\ adapter = "loadcell"
    /\ last.op = "get_readings"
    /\ last.outcome = "raised"
    /\ last.pre.hx711 # None
    /\ lc.hx711 = None
    /\ last.pre.tare_offset # Zero
    /\ lc.tare_offset = last.pre.tare_offset

(***************************************************************************)
(* C27  The load cell's handle is absent or fully initialized.             *)
(***************************************************************************)
\* C27: in every reachable state of the load cell the handle is absent, or
\* it is an HX711 that was constructed and whose reset() returned; a call
\* during which reset() raised leaves no handle.
C27_HandleAbsentOrInitialized ==
    adapter = "loadcell"
    => /\ lc.hx711 # None
             => /\ lc.hx711.reset = TRUE
                /\ lc.hx711.channel = "A"
                /\ lc.hx711.id \in 1..opens
       /\ (last.op # "new" /\ last.env.fault = "reset"
              /\ last.thrown # NoException)
             => lc.hx711 = None

\* a get_readings after close() that constructed an HX711 whose reset() raised
C27_Witness ==
    /\ adapter = "loadcell"
    /\ last.op = "get_readings"
    /\ last.pre.hx711 = None
    /\ last.env.fault = "reset"
    /\ last.log = <<"HX711", "reset">>
    /\ last.outcome = "raised"
    /\ lc.hx711 = None

(***************************************************************************)
(* C28  do_command has no rollback.                                        *)
(***************************************************************************)
\* the tare of the last do_command raised: the transport failed under it, or
\* the IMU / barometer had no sensor
TareRaisedInCommand ==
    /\ last.op = "do_command"
    /\ HasTare(last.env.command)
    /\ \/ last.thrown # NoException
       \/ adapter \in {"mpu", "bmp"} /\ last.pre.sensor = None

\* reset_tare comes before tare in the iteration order of the last command
ResetBeforeTare ==
    \E i, j \in DOMAIN last.env.command :
        /\ i < j
        /\ last.env.command[i] = "reset_tare"
        /\ last.env.command[j] = "tare"

\* self with every tare offset of the IMU / barometer at zero
Zeroed(self) ==
    IF "pressure_offset" \in DOMAIN self
    THEN [self EXCEPT !.pressure_offset = 0, !.altitude_offset = 0]
    ELSE [self EXCEPT !.accel_x_offset = 0, !.accel_y_offset = 0,
                      !.accel_z_offset = 0, !.gyro_x_offset = 0,
                      !.gyro_y_offset = 0, !.gyro_z_offset = 0]

AttributesOf(config) ==
    [k \in DOMAIN config |->
        IF k = "units" THEN String(config[k]) ELSE Number(FromInt(config[k]))]

\* validate_config accepts the configuration of the last reconfigure
Accepted ==
    LET fields == AttributesOf(last.env.config)
    IN  IF adapter = "mpu"
        THEN Mpu_validate_config(fields).outcome = "returned"
        ELSE BmpSensor_validate_config(fields).outcome = "returned"

\* the keys of a non-empty reading in each unit system
MpuKeySet(units) ==
    IF units = "imperial"
    THEN {"acceleration_x - ft/s2", "acceleration_y - ft/s2", "acceleration_z - ft/s2",
          "gyro_x - deg/s", "gyro_y - deg/s", "gyro_z - deg/s", "temperature - F"}
    ELSE {"acceleration_x - m/s2", "acceleration_y - m/s2", "acceleration_z - m/s2",
          "gyro_x - rad/s", "gyro_y - rad/s", "gyro_z - rad/s", "temperature - C"}
BmpKeySet(units) ==
    IF units = "imperial"
    THEN {"temperature - F", "pressure - inHg", "altitude - ft",
          "sea_level_pressure - inHg", "raw_pressure - inHg", "raw_altitude - ft",
          "pressure_offset - inHg", "altitude_offset - ft"}
    ELSE {"temperature - C", "pressure - Pa", "altitude - m",
          "sea_level_pressure - Pa", "raw_pressure - Pa", "raw_altitude - m",
          "pressure_offset - Pa", "altitude_offset - m"}

\* C29: after a reconfigure with a configuration validate_config accepts, and
\* in every state that follows, units is exactly "metric" or "imperial"
\* (whatever the case it was written in), and every non-empty IMU / barometer
\* reading has the 7 / 8 keys of the unit system stored: the key set is a
\* function of units alone.
C29_KeysFollowUnits ==
    adapter \in {"mpu", "bmp"}
    => /\ (last.op = "reconfigure" /\ Accepted)
             => /\ Current.units \in {"metric", "imperial"}
                /\ last.outcome = "returned"
                      => Current.units = Lower(Get(last.env.config, "units", "metric"))
       /\ Current.units \in {"metric", "imperial"}
       /\ (last.op = "get_readings" /\ DOMAIN last.result # {})
             => /\ DOMAIN last.result = IF adapter = "mpu"
                                        THEN MpuKeySet(Current.units)
                                        ELSE BmpKeySet(Current.units)
                /\ Cardinality(DOMAIN last.result) = IF adapter = "mpu" THEN 7 ELSE 8

\* a barometer reading after a reconfigure with units "IMPERIAL": eight keys,
\* all with imperial labels
C29_Witness ==
    /\ adapter = "bmp"
    /\ last.op = "get_readings"
    /\ bmp.units = "imperial"
    /\ bmp.sea_level_pressure = 100000
    /\ DOMAIN last.result = BmpKeySet("imperial")
    /\ Cardinality(DOMAIN last.result) = 8

(***************************************************************************)
(* Coroutines scheduled concurrently on one event loop.                    *)
(* get_readings, tare and reset_tare are coroutines (async def).  Several  *)
(* of them may be scheduled against the same Mpu or BmpSensor before any   *)
(* has run; the loop runs one coroutine at a time, from where it stands    *)
(* to its next await on something that suspends or to its end.  A body is  *)
(* the sequence of its statements that touch the sensor or the offsets.    *)
(*   loop.tasks  the coroutines scheduled so far: the method, the          *)
(*               transport behaviour it meets (env), the statement it      *)
(*               stands at (pc), "ready" or how it ended (status), and,    *)
(*               for get_readings, which write it saw in each offset       *)
(*   loop.stamp  for each offset, the task that wrote it last (0: the      *)
(*               reconfigure that created the object)                      *)
(***************************************************************************)
\* the statements of a body
RequireSensor == [do |-> "require_sensor", what |-> "", to |-> "", index |-> 0]
Read(what) == [do |-> "read", what |-> what, to |-> "", index |-> 0]
Store(to, what, index) == [do |-> "store", what |-> what, to |-> to, index |-> index]
SetZero(to) == [do |-> "zero", what |-> "", to |-> to, index |-> 0]
Load(to) == [do |-> "load", what |-> "", to |-> to, index |-> 0]
\* an await on something that suspends the coroutine
Await == [do |-> "await", what |-> "", to |-> "", index |-> 0]

\* Mpu.tare with an await between the acceleration and the gyro assignments
MpuTareBody_AwaitsBetweenAxes ==
    <<RequireSensor, Read("acceleration"), Read("gyro"),
      Store("accel_x_offset", "acceleration", 1),
      Store("accel_y_offset", "acceleration", 2),
      Store("accel_z_offset", "acceleration", 3),
      Await,
      Store("gyro_x_offset", "gyro", 1),
      Store("gyro_y_offset", "gyro", 2),
      Store("gyro_z_offset", "gyro", 3)>>

MpuTareBody ==
    <<RequireSensor, Read("acceleration"), Read("gyro"),
      Store("accel_x_offset", "acceleration", 1),
      Store("accel_y_offset", "acceleration", 2),
      Store("accel_z_offset", "acceleration", 3),
      Store("gyro_x_offset", "gyro", 1),
      Store("gyro_y_offset", "gyro", 2),
      Store("gyro_z_offset", "gyro", 3)>>

MpuResetTareBody ==
    <<SetZero("accel_x_offset"), SetZero("accel_y_offset"), SetZero("accel_z_offset"),
      SetZero("gyro_x_offset"), SetZero("gyro_y_offset"), SetZero("gyro_z_offset")>>

MpuGetReadingsBody ==
    <<RequireSensor, Read("acceleration"), Read("gyro"), Read("temperature"),
      Load("accel_x_offset"), Load("accel_y_offset"), Load("accel_z_offset"),
      Load("gyro_x_offset"), Load("gyro_y_offset"), Load("gyro_z_offset")>>

BmpTareBody ==
    <<RequireSensor,
      Read("read_pressure"), Store("pressure_offset", "pressure", 0),
      Read("read_altitude"), Store("altitude_offset", "altitude", 0)>>

BmpResetTareBody == <<SetZero("pressure_offset"), SetZero("altitude_offset")>>

BmpGetReadingsBody ==
    <<RequireSensor,
      Read("read_temperature"), Read("read_pressure"), Read("read_altitude"),
      Load("pressure_offset"), Load("altitude_offset"),
      Load("pressure_offset"), Load("altitude_offset")>>

Body(class, op) ==
    CASE class = "mpu" /\ op = "tare" -> MpuTareBody
      [] class = "mpu" /\ op = "reset_tare" -> MpuResetTareBody
      [] class = "mpu" /\ op = "get_readings" -> MpuGetReadingsBody
      [] class = "bmp" /\ op = "tare" -> BmpTareBody
      [] class = "bmp" /\ op = "reset_tare" -> BmpResetTareBody
      [] class = "bmp" /\ op = "get_readings" -> BmpGetReadingsBody

\* the offsets of a class
OffsetNames(class) ==
    IF class = "mpu"
    THEN {MpuOffsetNames[i] : i \in DOMAIN MpuOffsetNames}
    ELSE {"pressure_offset", "altitude_offset"}

RECURSIVE RunCoroutine(_, _, _, _, _)
\* the loop runs task (number id, statements body) on the object self until
\* it suspends or ends: the task, the object and the stamps afterwards
RunCoroutine(id, body, task, self, stamp) ==
    IF task.pc > Len(body)
    THEN [task |-> [task EXCEPT !.status = "returned"], self |-> self,
          stamp |-> stamp]
    ELSE LET m == body[task.pc]
             next == [task EXCEPT !.pc = @ + 1]
             \* an error ends the body: tare re-raises, get_readings returns {}
             failed == [task |-> [task EXCEPT !.status =
                                     IF task.op = "get_readings"
                                     THEN "returned" ELSE "raised"],
                        self |-> self, stamp |-> stamp]
         IN  CASE m.do = "await" ->
                    [task |-> next, self |-> self, stamp |-> stamp]
               [] m.do = "require_sensor" ->
                    IF self.sensor = None
                    THEN failed
                    ELSE RunCoroutine(id, body, next, self, stamp)
               [] m.do = "read" ->
                    IF task.env.fault = m.what
                    THEN failed
                    ELSE RunCoroutine(id, body, next, self, stamp)
               [] m.do = "store" ->
                    RunCoroutine(id, body, next,
                                 [self EXCEPT ![m.to] =
                                     IF m.index = 0 THEN task.env[m.what]
                                     ELSE task.env[m.what][m.index]],
                                 [stamp EXCEPT ![m.to] = id])
               [] m.do = "zero" ->
                    RunCoroutine(id, body, next, [self EXCEPT ![m.to] = 0],
                                 [stamp EXCEPT ![m.to] = id])
               [] m.do = "load" ->
                    RunCoroutine(id, body,
                                 [next EXCEPT !.seen = Append(@, stamp[m.to])],
                                 self, stamp)

\* the transport behaviours a scheduled coroutine may meet
LoopEnvs(class, op) ==
    LET failing(faults) == {[fault |-> f, exc |-> "OSError"] : f \in faults}
    IN  CASE op = "reset_tare" -> {NoEnv}
          [] class = "mpu" /\ op = "get_readings" ->
                {NoEnv} \cup failing({"acceleration", "gyro", "temperature"})
          [] class = "mpu" /\ op = "tare" ->
                {NoEnv @@ [acceleration |-> <<1, 2, 10>>, gyro |-> <<1, 0, 3>>],
                 NoEnv @@ [acceleration |-> <<0, -1, 9>>, gyro |-> <<-2, 5, 0>>]}
                \cup failing({"acceleration", "gyro"})
          [] class = "bmp" /\ op = "get_readings" ->
                {NoEnv} \cup failing({"read_temperature", "read_pressure",
                                      "read_altitude"})
          [] class = "bmp" /\ op = "tare" ->
                {NoEnv @@ [pressure |-> 101325, altitude |-> 100],
                 NoEnv @@ [pressure |-> 100000, altitude |-> 0]}
                \cup failing({"read_pressure"})
                \cup {[fault |-> "read_altitude", exc |-> "OSError", pressure |-> p] :
                        p \in PressureSamples}

LoopInit ==
    /\ adapter \in {"mpu", "bmp"}
    /\ lc = InitLoadCell
    /\ mpu = InitMpu
    /\ bmp = InitBmp
    /\ opens = 1
    /\ loop = [tasks |-> <<>>, stamp |-> [n \in OffsetNames(adapter) |-> 0]]
    /\ last = [op |-> "new", env |-> NoEnv, thrown |-> NoException,
               outcome |-> "returned", raised |-> NoException, result |-> None,
               log |-> <<>>, pre |-> None,
               prev |-> "other"]

\* a caller schedules one more coroutine on the loop
Schedule ==
    /\ Len(loop.tasks) < MaxTasks
    /\ \E op \in {"get_readings", "tare", "reset_tare"} :
       \E env \in LoopEnvs(adapter, op) :
          loop' = [loop EXCEPT !.tasks =
                      Append(@, [op |-> op, env |-> env, pc |-> 1,
                                 status |-> "ready", seen |-> <<>>])]
    /\ UNCHANGED <<adapter, lc, mpu, bmp, opens, last>>

\* the loop runs a ready coroutine of the IMU
MpuRun ==
    /\ adapter = "mpu"
    /\ \E id \in DOMAIN loop.tasks :
          /\ loop.tasks[id].status = "ready"
          /\ LET r == RunCoroutine(id, Body("mpu", loop.tasks[id].op),
                                   loop.tasks[id], mpu, loop.stamp)
             IN  /\ mpu' = r.self
                 /\ loop' = [tasks |-> [loop.tasks EXCEPT ![id] = r.task],
                             stamp |-> r.stamp]
    /\ UNCHANGED <<adapter, lc, bmp, opens, last>>

\* the loop runs a ready coroutine of the barometer
BmpRun ==
    /\ adapter = "bmp"
    /\ \E id \in DOMAIN loop.tasks :
          /\ loop.tasks[id].status = "ready"
          /\ LET r == RunCoroutine(id, Body("bmp", loop.tasks[id].op),
                                   loop.tasks[id], bmp, loop.stamp)
             IN  /\ bmp' = r.self
                 /\ loop' = [tasks |-> [loop.tasks EXCEPT ![id] = r.task],
                             stamp |-> r.stamp]
    /\ UNCHANGED <<adapter, lc, mpu, opens, last>>

LoopNext ==
    \/ Schedule
    \/ MpuRun
    \/ BmpRun

LoopSpec == LoopInit /\ [][LoopNext]_vars

(***************************************************************************)
(* C30  Concurrent coroutines interleave at whole-operation granularity.   *)
(***************************************************************************)
\* the get_readings coroutines that have run to their end and read the offsets
FinishedReadings ==
    {id \in DOMAIN loop.tasks :
        /\ loop.tasks[id].op = "get_readings"
        /\ loop.tasks[id].status = "returned"
        /\ loop.tasks[id].seen # <<>>}

\* every offset the get_readings task id read was written by the same task
Untorn(id) ==
    \A i, j \in DOMAIN loop.tasks[id].seen :
        loop.tasks[id].seen[i] = loop.tasks[id].seen[j]

====
